---------------------------- MODULE Spec2Model ----------------------------
(***************************************************************************)
(* Verification model of the document ingestion and schema-mapping engine  *)
(* of rest_finance: the validation service with its auto-fixers, the       *)
(* file routes that drive them (upload, analyze, fix, process), and the    *)
(* source mapping registry.                                                *)
(*                                                                         *)
(* A file's content is a sequence of atoms.  An atom is one separator      *)
(* character (comma, double quote, line feed, space) or one run of         *)
(* ordinary characters (a column name, a date, an amount, a text).  Line   *)
(* terminators are all written as the line feed atom: the model does not   *)
(* distinguish "\r\n" from "\n".                                           *)
(***************************************************************************)
EXTENDS Integers, Sequences, FiniteSets, TLC

\* A run of ordinary characters longer than 200 characters.
LONGTEXT == "long-text"
\* A run of ordinary characters that csv_utils.parse_date accepts.
DATE1    == "01/15/2024"

-----------------------------------------------------------------------------
(* Generic sequence helpers                                                *)

Contains(s, a) == \E i \in 1..Len(s) : s[i] = a

Range(s) == {s[i] : i \in 1..Len(s)}

-----------------------------------------------------------------------------
(* str.split('\n') and '\n'.join                                           *)

SplitLines(text) ==
    LET RECURSIVE From(_, _)
        From(rest, cur) ==
            IF rest = <<>> THEN <<cur>>
            ELSE IF Head(rest) = "\n" THEN <<cur>> \o From(Tail(rest), <<>>)
            ELSE From(Tail(rest), Append(cur, Head(rest)))
    IN From(text, <<>>)

RECURSIVE JoinLines(_)
JoinLines(lines) ==
    IF lines = <<>> THEN <<>>
    ELSE IF Len(lines) = 1 THEN lines[1]
    ELSE lines[1] \o <<"\n">> \o JoinLines(Tail(lines))

-----------------------------------------------------------------------------
(* ValidationService._fix_embedded_linefeeds                               *)

RECURSIVE FelLoop(_, _, _, _)
FelLoop(lines, fixed, cur, inq) ==
    IF lines = <<>> THEN
        IF cur # <<>> THEN Append(fixed, cur) ELSE fixed
    ELSE
        LET line == Head(lines)
            odd  == Len(SelectSeq(line, LAMBDA a : a = "\"")) % 2 = 1
        IN IF ~inq
           THEN IF odd THEN FelLoop(Tail(lines), fixed, line, TRUE)
                ELSE FelLoop(Tail(lines), Append(fixed, line), line, FALSE)
           ELSE LET joined == cur \o <<" ">> \o line
                IN IF odd THEN FelLoop(Tail(lines), Append(fixed, joined), <<>>, FALSE)
                   ELSE FelLoop(Tail(lines), fixed, joined, TRUE)

FixEmbeddedLinefeeds(content) ==
    JoinLines(FelLoop(SplitLines(content), <<>>, <<>>, FALSE))

-----------------------------------------------------------------------------
(* The csv tokenizer shared by Python's csv.reader (dialect excel, not      *)
(* strict) and the pandas C parser: delimiter comma, quote character        *)
(* double quote, doubled quote as escape.  A record is a sequence of        *)
(* fields, a field a sequence of atoms.  A blank line gives the empty       *)
(* record.  eofInQuote tells that the text ended inside a quoted field.     *)

RECURSIVE Tok(_, _, _, _, _)
Tok(text, st, field, rec, recs) ==
    IF text = <<>> THEN
        IF st = "start_record"
        THEN [recs |-> recs, eofInQuote |-> FALSE]
        ELSE [recs |-> Append(recs, Append(rec, field)),
              eofInQuote |-> (st = "in_quoted")]
    ELSE
        LET c    == Head(text)
            rest == Tail(text)
        IN CASE st = "start_record" /\ c = "\n" ->
                    Tok(rest, "start_record", <<>>, <<>>, Append(recs, <<>>))
             [] st \in {"start_record", "start_field"} /\ c # "\n" ->
                    IF c = "\"" THEN Tok(rest, "in_quoted", <<>>, rec, recs)
                    ELSE IF c = ","
                    THEN Tok(rest, "start_field", <<>>, Append(rec, <<>>), recs)
                    ELSE Tok(rest, "in_field", <<c>>, rec, recs)
             [] st \in {"start_field", "in_field", "quote_in_quoted"} /\ c = "\n" ->
                    Tok(rest, "start_record", <<>>, <<>>,
                        Append(recs, Append(rec, field)))
             [] st \in {"in_field", "quote_in_quoted"} /\ c = "," ->
                    Tok(rest, "start_field", <<>>, Append(rec, field), recs)
             [] st = "in_field" /\ c \notin {"\n", ","} ->
                    Tok(rest, "in_field", Append(field, c), rec, recs)
             [] st = "in_quoted" /\ c = "\"" ->
                    Tok(rest, "quote_in_quoted", field, rec, recs)
             [] st = "in_quoted" /\ c # "\"" ->
                    Tok(rest, "in_quoted", Append(field, c), rec, recs)
             [] st = "quote_in_quoted" /\ c = "\"" ->
                    Tok(rest, "in_quoted", Append(field, "\""), rec, recs)
             [] st = "quote_in_quoted" /\ c \notin {"\n", ",", "\""} ->
                    Tok(rest, "in_field", Append(field, c), rec, recs)

Tokenize(text) == Tok(text, "start_record", <<>>, <<>>, <<>>)

\* list(csv.reader(f)) of a file opened with newline=''
CsvReader(text) == Tokenize(text).recs

(* csv.writer / DataFrame.to_csv with QUOTE_MINIMAL: a field is quoted when *)
(* it holds a delimiter, a quote or a line terminator; quotes are doubled;  *)
(* a row made of one empty field is written as "".                          *)

RECURSIVE DoubleQuotes(_)
DoubleQuotes(f) ==
    IF f = <<>> THEN <<>>
    ELSE (IF Head(f) = "\"" THEN <<"\"", "\"">> ELSE <<Head(f)>>)
         \o DoubleQuotes(Tail(f))

WriteField(f) ==
    IF Contains(f, ",") \/ Contains(f, "\"") \/ Contains(f, "\n")
    THEN <<"\"">> \o DoubleQuotes(f) \o <<"\"">>
    ELSE f

RECURSIVE WriteFields(_)
WriteFields(row) ==
    IF row = <<>> THEN <<>>
    ELSE IF Len(row) = 1 THEN WriteField(row[1])
    ELSE WriteField(row[1]) \o <<",">> \o WriteFields(Tail(row))

\* writer.writerows(rows)
RECURSIVE WriteRows(_)
WriteRows(rows) ==
    IF rows = <<>> THEN <<>>
    ELSE (IF Head(rows) = << <<>> >> THEN <<"\"", "\"">> ELSE WriteFields(Head(rows)))
         \o <<"\n">> \o WriteRows(Tail(rows))

-----------------------------------------------------------------------------
(* pandas.read_csv(path, dtype=str, na_filter=False) with the C parser:     *)
(* blank lines are skipped; the first record is the header; the first data  *)
(* row fixes the table width when it is wider than the header, and the      *)
(* surplus leading fields become the index; a later row wider than the      *)
(* table raises ParserError; shorter rows are padded with empty fields; a   *)
(* text ending inside a quoted field raises ParserError; a text with no     *)
(* record raises EmptyDataError.  Column names are kept as written (the     *)
(* renaming of duplicate and empty names is not modelled).                  *)

PadTo(row, w) == row \o [i \in 1..(w - Len(row)) |-> <<>>]

PdFailure(msg) == [ok |-> FALSE, err |-> msg, columns |-> <<>>, rows |-> <<>>]

\* the table the parser builds from the tokenizer's records
PdFrame(tk) ==
    LET recs == SelectSeq(tk.recs, LAMBDA r : r # <<>>)
    IN IF recs = <<>> THEN
            IF tk.eofInQuote THEN PdFailure("EOF inside string")
            ELSE PdFailure("No columns to parse from file")
       ELSE
        LET header == Head(recs)
            data   == Tail(recs)
            n      == Len(header)
            w      == IF data = <<>> \/ Len(data[1]) <= n THEN n ELSE Len(data[1])
            lead   == w - n
        IN IF \E i \in 2..Len(data) : Len(data[i]) > w
           THEN PdFailure("Expected fewer fields")
           ELSE IF tk.eofInQuote THEN PdFailure("EOF inside string")
           ELSE [ok |-> TRUE, err |-> "",
                 columns |-> header,
                 rows |-> [i \in 1..Len(data) |->
                             SubSeq(PadTo(data[i], w), lead + 1, w)]]

PdReadCsv(text) == PdFrame(Tokenize(text))

ToCsvUnquoted(df) ==
    SelectSeq(WriteRows(<<df.columns>> \o df.rows), LAMBDA a : a # "\"")

\* DataFrame.to_csv(path, index=False)
ToCsv(df) == WriteRows(<<df.columns>> \o df.rows)

HasColumn(df, col) == Contains(df.columns, <<col>>)

ColumnIndex(df, col) == CHOOSE i \in 1..Len(df.columns) : df.columns[i] = <<col>>

\* df[col].iloc[0]
FirstValue(df, col) == df.rows[1][ColumnIndex(df, col)]

\* len(s) > 200 for a str value
IsComplexValue(field) == Contains(field, LONGTEXT)

-----------------------------------------------------------------------------
(* Sources.  The routes pass the source_id of the registered mapping; the   *)
(* built-in ids are lower case, "Chase" stands for a mapping registered     *)
(* under a capitalised id.                                                  *)

Sources == {"chase", "Chase", "bankofamerica", "restaurantdepot", "gg"}

\* str.lower() on the source ids and registry ids of the model
Lower(source) ==
    CASE source = "Chase" -> "chase"
      [] source = "BankOfAmerica" -> "bankofamerica"
      [] source = "RestaurantDepot" -> "restaurantdepot"
      [] source = "Sysco" -> "sysco"
      [] source = "Acme" -> "acme"
      [] OTHER -> source

\* source_mapping.get(source.lower(), source)
MappedSource(source) ==
    CASE Lower(source) = "chase" -> "Chase"
      [] Lower(source) = "bankofamerica" -> "BankOfAmerica"
      [] Lower(source) = "restaurantdepot" -> "RestaurantDepot"
      [] Lower(source) = "sysco" -> "Sysco"
      [] OTHER -> source

BoaRequiredColumns == <<"Status", "Date", "Original Description", "Amount">>
ChaseRequiredColumns == <<"Posting Date", "Description", "Amount">>

\* [col for col in required if col not in df.columns]
MissingColumns(df, required) ==
    SelectSeq(required, LAMBDA col : ~HasColumn(df, col))

-----------------------------------------------------------------------------
(* Issue detection: ValidationService._detect_*_issues                      *)

Issue(type, message, fixable) ==
    [type |-> type, message |-> message, fixable |-> fixable]

IsFixableNever(issue) == FALSE

\* issue.get('fixable', False)
IsFixable(issue) == issue.fixable

DetectChaseIssues(df) ==
    IF HasColumn(df, "Description") /\ Len(df.rows) > 0
    THEN IF IsComplexValue(FirstValue(df, "Description"))
         THEN << Issue("column_misalignment",
                       <<"Chase file has complex transaction data in column",
                         "Description">>, TRUE) >>
         ELSE <<>>
    ELSE LET complex == {i \in 1..Len(df.columns) :
                            Len(df.rows) > 0 /\ IsComplexValue(df.rows[1][i])}
         IN IF complex = {} THEN <<>>
            ELSE LET first == CHOOSE i \in complex : \A j \in complex : i <= j
                 IN << Issue("column_misalignment",
                             <<"Chase file has complex transaction data in column">>
                             \o df.columns[first], TRUE) >>

DetectBoaIssues(df) ==
    LET missing == MissingColumns(df, BoaRequiredColumns)
    IN IF missing # <<>>
       THEN << Issue("missing_columns",
                     <<"Missing required columns: ">> \o missing, FALSE) >>
       ELSE <<>>

\* _detect_restaurant_depot_issues and _detect_sysco_issues
DetectInvoiceIssues(df) ==
    IF Len(df.columns) < 3
    THEN << Issue("insufficient_data",
                  <<"File appears to have insufficient data columns for an invoice">>,
                  FALSE) >>
    ELSE <<>>

\* the body of _detect_source_specific_issues on the outcome of its read
DetectIssuesIn(df, source) ==
    LET m == MappedSource(source)
    IN IF ~df.ok
       THEN << Issue("csv_formatting",
                     <<"CSV formatting issue: ", df.err>>, TRUE) >>
       ELSE CASE m = "Chase" -> DetectChaseIssues(df)
              [] m = "BankOfAmerica" -> DetectBoaIssues(df)
              [] m \in {"RestaurantDepot", "Sysco"} -> DetectInvoiceIssues(df)
              [] OTHER -> <<>>

DetectSourceSpecificIssues(text, source) ==
    DetectIssuesIn(PdReadCsv(text), source)

-----------------------------------------------------------------------------
(* CSVUtils.validate_csv_structure: reads the first rows with pandas and    *)
(* returns the list of structure errors (is_valid is "the list is empty").  *)

StructureRows == 5

\* any(indicator in col for indicator in invoice_indicators), on the column
\* names of the model
HasIndicator(field) ==
    \E i \in 1..Len(field) :
        field[i] \in {"Invoice", "Date", "Total", "Amount", "Item", "Posting Date"}

MissingColumnErrors(df, required) ==
    LET missing == MissingColumns(df, required)
    IN [i \in 1..Len(missing) |-> <<"Missing required column: ", missing[i]>>]

\* the checks of validate_csv_structure on the rows it read
StructureChecks(df, source) ==
    IF ~df.ok THEN << <<"File reading error: ", df.err>> >>
       ELSE
         (CASE source = "BankOfAmerica" -> MissingColumnErrors(df, BoaRequiredColumns)
            [] source = "Chase" -> MissingColumnErrors(df, ChaseRequiredColumns)
            [] source \in {"RestaurantDepot", "Sysco"} ->
                 IF Cardinality({i \in 1..Len(df.columns) :
                                    HasIndicator(df.columns[i])}) < 2
                 THEN << <<"File may not be in expected format">> >>
                 ELSE <<>>
            [] OTHER -> <<>>)
         \o (IF Len(df.rows) = 0 THEN << <<"File is empty">> >> ELSE <<>>)
         \o (IF Cardinality(Range(df.rows)) # Len(df.rows)
             THEN << <<"File contains duplicate rows">> >> ELSE <<>>)

\* pd.read_csv(file_path, nrows=5), then the checks
ValidateCsvStructure(text, source) ==
    StructureChecks([PdReadCsv(text) EXCEPT
                        !.rows = IF Len(@) <= StructureRows THEN @
                                 ELSE SubSeq(@, 1, StructureRows)],
                    source)

-----------------------------------------------------------------------------
(* The validation result.  Of the result's fields the model keeps valid,    *)
(* errors, issues_detected, record_count, can_proceed and                   *)
(* user_action_required; warnings, fix suggestions and the display fields   *)
(* are left out.                                                            *)

NewResult ==
    [valid |-> TRUE, errors |-> <<>>, issues_detected |-> <<>>,
     record_count |-> 0, can_proceed |-> TRUE, user_action_required |-> FALSE]

\* errors.append(msg); valid = False
Fail(r, msg) == [r EXCEPT !.errors = Append(@, msg), !.valid = FALSE]

FailAll(r, msgs) == [r EXCEPT !.errors = @ \o msgs, !.valid = FALSE]

\* as Fail, with can_proceed = False
Refuse(r, msg) == [Fail(r, msg) EXCEPT !.can_proceed = FALSE]

ValidateBoaFile(df, r) ==
    LET errs == MissingColumnErrors(df, BoaRequiredColumns)
    IN IF errs # <<>> THEN FailAll(r, errs) ELSE r

ValidateChaseFile(df, r) ==
    LET missing == MissingColumns(df, ChaseRequiredColumns)
        r1 == IF missing # <<>>
              THEN Fail(r, <<"Missing required columns: ">> \o missing)
              ELSE r
    IN IF HasColumn(df, "Description") /\ Len(df.rows) > 0
          /\ IsComplexValue(FirstValue(df, "Description"))
       THEN [r1 EXCEPT
               !.issues_detected = Append(@,
                   Issue("column_misalignment",
                         <<"The Description column contains complex transaction data">>,
                         FALSE)),
               !.user_action_required = TRUE,
               !.can_proceed = FALSE]
       ELSE r1

\* _validate_restaurant_depot_file and _validate_sysco_file
ValidateInvoiceFile(df, r) ==
    IF Len(df.columns) < 3
    THEN Fail(r, <<"File has too few columns for the invoice format">>)
    ELSE r

ValidateGeneralCsv(df, r) ==
    IF Len(df.rows) = 0 THEN Fail(r, <<"File is empty">>) ELSE r

ValidateSourceFileSkipped(df, r, source) == r

\* the dispatch on the source in validate_csv_file
ValidateSourceFile(df, r, source) ==
    LET m == IF source \in {"BankOfAmerica", "Chase", "RestaurantDepot", "Sysco"}
             THEN source ELSE MappedSource(source)
    IN CASE m = "BankOfAmerica" -> ValidateBoaFile(df, r)
         [] m = "Chase" -> ValidateChaseFile(df, r)
         [] m \in {"RestaurantDepot", "Sysco"} -> ValidateInvoiceFile(df, r)
         [] OTHER -> Refuse(r, <<"Unknown source type: ", source>>)

\* any(issue.get('fixable', False) for issue in issues_detected)
HasFixableIssue(r) ==
    \E i \in 1..Len(r.issues_detected) : IsFixable(r.issues_detected[i])

\* ValidationService._add_backward_compatibility, on the fields of the model
AddBackwardCompatibility(r) ==
    IF HasFixableIssue(r)
    THEN [r EXCEPT !.user_action_required = TRUE, !.can_proceed = FALSE]
    ELSE r

-----------------------------------------------------------------------------
(* Files.  A file is [exists, text]; kind tells whether the document at the *)
(* validated path passes FileUtils.is_valid_file_type ("other_type" does    *)
(* not) and FileUtils.is_valid_file_size ("oversize" does not).             *)

NoFile == [exists |-> FALSE, text |-> <<>>]
FileOf(text) == [exists |-> TRUE, text |-> text]

\* ValidationService._fix_csv_formatting: the file and its sibling backup
\* after the call
FixCsvFormatting(d, b) ==
    IF Contains(d.text, "\n") /\ Contains(d.text, "\"")
    THEN [doc |-> FileOf(FixEmbeddedLinefeeds(d.text)), bak |-> FileOf(d.text)]
    ELSE [doc |-> d, bak |-> b]

\* validate_csv_file, the handling of the detected issues
RecordIssues(r, issues) ==
    LET fixable   == SelectSeq(issues, IsFixable)
        unfixable == SelectSeq(issues, LAMBDA i : ~IsFixable(i))
        r1 == [r EXCEPT !.issues_detected = issues]
        r2 == IF fixable # <<>>
              THEN [r1 EXCEPT !.user_action_required = TRUE, !.can_proceed = FALSE]
              ELSE r1
    IN IF unfixable # <<>>
       THEN [r2 EXCEPT !.user_action_required = TRUE, !.can_proceed = FALSE,
                       !.errors = @ \o [i \in 1..Len(unfixable) |->
                                           unfixable[i].message]]
       ELSE r2

\* validate_csv_file, the handling of the structure errors
RecordStructure(r, serrs) ==
    IF serrs # <<>>
    THEN [FailAll(r, serrs) EXCEPT !.can_proceed = FALSE]
    ELSE r

\* validate_csv_file, the source-specific validation on the outcome of its
\* own read of the file
ValidateParsed(r, df, source) ==
    IF ~df.ok
    THEN AddBackwardCompatibility(
             [Fail(r, <<"CSV parsing error: ", df.err>>)
                 EXCEPT !.can_proceed = ~HasFixableIssue(r)])
    ELSE AddBackwardCompatibility(
             ValidateGeneralCsv(df,
                 ValidateSourceFile(df, [r EXCEPT !.record_count = Len(df.rows)],
                                    source)))

\* validate_csv_file on the checks that follow the basic file checks
ValidateCsvContent(text, source) ==
    ValidateParsed(
        RecordStructure(
            RecordIssues(NewResult, DetectSourceSpecificIssues(text, source)),
            ValidateCsvStructure(text, source)),
        PdReadCsv(text), source)

\* ValidationService.validate_csv_file: the result, and the file and its
\* backup after the call
ValidateCsvFile(d, k, b, source) ==
    IF ~d.exists
    THEN [r |-> Refuse(NewResult, <<"File does not exist">>), doc |-> d, bak |-> b]
    ELSE IF k = "other_type"
    THEN [r |-> Refuse(NewResult, <<"Invalid file type">>), doc |-> d, bak |-> b]
    ELSE IF k = "oversize"
    THEN [r |-> Refuse(NewResult, <<"File too large">>), doc |-> d, bak |-> b]
    ELSE LET fx == FixCsvFormatting(d, b)
         IN [r |-> ValidateCsvContent(fx.doc.text, source),
             doc |-> fx.doc, bak |-> fx.bak]

(* ValidationService.validate_file_against_metadata.  The saved metadata    *)
(* of a source is [have, columns].  The result of the metadata branch has   *)
(* no can_proceed, user_action_required or issues_detected key; the model   *)
(* gives them the values a reader's .get() defaults to.                     *)

StructureCompatible(df, columns) ==
    LET matching == {c \in Range(columns) : HasColumn(df, c)}
    IN /\ columns # <<>>
       /\ 10 * Cardinality(matching) >= 3 * Len(columns)

\* the comparison of the parsed file with the saved metadata
MetadataResult(df, m) ==
    IF ~df.ok
    THEN Fail(NewResult, <<"Metadata validation error: ", df.err>>)
    ELSE IF ~StructureCompatible(df, m.columns)
    THEN Fail([NewResult EXCEPT !.record_count = Len(df.rows)],
              <<"File structure is incompatible with saved metadata">>)
    ELSE [NewResult EXCEPT !.record_count = Len(df.rows)]

ValidateFileAgainstMetadata(d, k, b, source, m) ==
    IF ~d.exists
    THEN [r |-> Fail(NewResult, <<"File does not exist">>), doc |-> d, bak |-> b]
    ELSE IF k = "other_type"
    THEN [r |-> Fail(NewResult, <<"Invalid file type">>), doc |-> d, bak |-> b]
    ELSE IF ~m.have
    THEN ValidateCsvFile(d, k, b, source)
    ELSE [doc |-> d, bak |-> b, r |-> MetadataResult(PdReadCsv(d.text), m)]

-----------------------------------------------------------------------------
(* The fixers.  Each is split at its file operations: what it computes      *)
(* from the file it read, the backup it leaves, and the text it writes.     *)

\* str.strip() leaves something
NonEmptyCell(cell) == \E i \in 1..Len(cell) : cell[i] \notin {" ", "\n"}

FitToPadOnly(row, n) == IF Len(row) < n THEN PadTo(row, n) ELSE row

\* the pad-or-trim of a row to n columns
FitTo(row, n) == IF Len(row) < n THEN PadTo(row, n) ELSE SubSeq(row, 1, n)

ChaseExpectedHeader ==
    << <<"Details">>, <<"Posting Date">>, <<"Description">>, <<"Amount">>,
       <<"Type">>, <<"Balance">>, <<"Check or Slip #">> >>

FitRows(rows, n) ==
    LET kept == SelectSeq(rows, LAMBDA row :
                        \E i \in 1..Len(row) : NonEmptyCell(row[i]))
    IN [i \in 1..Len(kept) |-> FitTo(kept[i], n)]

\* the transpose, filter, transpose back of the generic branch
DropEmptyColumns(header, rows) ==
    LET all  == <<header>> \o rows
        cols == {c \in 1..Len(header) :
                    \E i \in 1..Len(rows) : NonEmptyCell(rows[i][c])}
        RECURSIVE Pick(_, _)
        Pick(row, c) == IF c > Len(row) THEN <<>>
                        ELSE (IF c \in cols THEN <<row[c]>> ELSE <<>>)
                             \o Pick(row, c + 1)
    IN IF cols = {} THEN <<header>>
       ELSE [i \in 1..Len(all) |-> Pick(all[i], 1)]

\* _fix_csv_formatting_issues up to its file operations: the rows it writes
CleanedRows(text) ==
    LET reader == CsvReader(text)
        header == reader[1]
    IN IF /\ Contains(header, <<"Details">>)
          /\ Contains(header, <<"Posting Date">>)
          /\ Contains(header, <<"Description">>)
       THEN <<ChaseExpectedHeader>>
            \o FitRows(Tail(reader), Len(ChaseExpectedHeader))
       ELSE DropEmptyColumns(header, FitRows(Tail(reader), Len(header)))

RECURSIVE FirstHundred(_)
FirstHundred(desc) ==
    IF desc = <<>> THEN <<>>
    ELSE IF Head(desc) = LONGTEXT THEN <<"text-100">>
    ELSE <<Head(desc)>> \o FirstHundred(Tail(desc))

\* extract_transaction_details: the first date of the description when it
\* holds one, else the description cut to 100 characters
ExtractTransactionDetails(desc) ==
    IF Contains(desc, DATE1) THEN <<DATE1>> ELSE FirstHundred(desc)

\* df['Description'] = df['Description'].apply(extract_transaction_details)
SimplifyDescriptions(df) ==
    IF ~HasColumn(df, "Description") THEN df
    ELSE LET c == ColumnIndex(df, "Description")
         IN [df EXCEPT !.rows =
               [i \in 1..Len(df.rows) |->
                  [df.rows[i] EXCEPT ![c] = ExtractTransactionDetails(@)]]]

\* the fixer _apply_source_specific_fix dispatches an issue to
FixerOf(issue, source) ==
    CASE issue.type = "csv_formatting" -> "csv_formatting_issues"
      [] issue.type = "column_misalignment" /\ Lower(source) = "chase" ->
            "chase_column_misalignment"
      [] issue.type = "chase_optimization" /\ Lower(source) = "chase" ->
            "chase_optimization"
      [] OTHER -> "none"

-----------------------------------------------------------------------------
(* Processing: RobustCSVLoader.load_csv_robust as DataProcessor calls it    *)
(* (no header_match, no min_row_fields), _parse_with_config and             *)
(* CSVUtils.group_transactions_by_month.                                    *)

\* f.readlines(): the physical lines, each with its line feed
ReadLines(text) ==
    LET RECURSIVE From(_, _)
        From(rest, cur) ==
            IF rest = <<>> THEN (IF cur = <<>> THEN <<>> ELSE <<cur>>)
            ELSE IF Head(rest) = "\n"
                 THEN <<Append(cur, "\n")>> \o From(Tail(rest), <<>>)
                 ELSE From(Tail(rest), Append(cur, Head(rest)))
    IN From(text, <<>>)

RECURSIVE LStrip(_, _)
LStrip(cell, chars) ==
    IF cell # <<>> /\ Head(cell) \in chars THEN LStrip(Tail(cell), chars) ELSE cell

RECURSIVE RStrip(_, _)
RStrip(cell, chars) ==
    IF cell # <<>> /\ cell[Len(cell)] \in chars
    THEN RStrip(SubSeq(cell, 1, Len(cell) - 1), chars) ELSE cell

\* [cell.strip().strip('"') for cell in next(csv.reader([line]))]
ParseLine(line) ==
    LET recs == CsvReader(line)
    IN IF recs = <<>> THEN <<>>
       ELSE [i \in 1..Len(recs[1]) |->
               RStrip(LStrip(RStrip(LStrip(recs[1][i], {" ", "\n"}), {" ", "\n"}),
                             {"\""}), {"\""})]

\* SourceMappingConfig, on the fields the model uses.  The date, description
\* and amount mappings have the target fields "date", "description" and
\* "amount"; optional_targets are the target fields of the optional mappings,
\* here named after their source columns.  example_data is the list of
\* example rows, each row given by the set of its keys.
Schema(id, name, date, desc, amount, optional, fmt) ==
    [source_id |-> id, display_name |-> name,
     date_column |-> date, description_column |-> desc, amount_column |-> amount,
     optional_columns |-> optional, optional_targets |-> optional,
     date_format |-> fmt,
     expected_columns |-> <<date, desc, amount>> \o optional,
     required_columns |-> <<date, desc, amount>>,
     example_data |-> << {date, desc, amount} \cup Range(optional),
                         {date, desc, amount} \cup Range(optional) >>]

DefaultIds == {"bankofamerica", "chase", "restaurantdepot", "sysco", "gg", "ar"}

\* DEFAULT_SOURCE_MAPPINGS
DefaultMapping(id) ==
    CASE id = "bankofamerica" ->
            [Schema(id, "Bank of America", "Date", "Original Description", "Amount",
                    <<"Status">>, "MM/DD/YYYY")
             EXCEPT !.optional_targets = <<"status">>]
      [] id = "chase" ->
            [Schema(id, "Chase", "Posting Date", "Description", "Amount",
                    <<"Details", "Type", "Balance", "Check or Slip #">>, "MM/DD/YYYY")
             EXCEPT !.optional_targets = <<"details", "type", "balance", "check_number">>]
      [] id = "restaurantdepot" ->
            Schema(id, "Restaurant Depot", "Date", "Description", "Total", <<>>,
                   "MM/DD/YYYY")
      [] id = "sysco" ->
            Schema(id, "Sysco", "Date", "Description", "Total", <<>>, "MM/DD/YYYY")
      [] id = "gg" ->
            Schema(id, "GG", "Date", "Description", "Amount", <<>>, "MM/DD/YYYY")
      [] id = "ar" ->
            Schema(id, "AR", "Date", "Description", "Amount", <<>>, "MM/DD/YYYY")

DefaultMappings == [id \in DefaultIds |-> DefaultMapping(id)]

\* load_csv_robust raising; malformed is the list the warning is logged of
LoadFailure(error, bad) ==
    [ok |-> FALSE, error |-> error, columns |-> <<>>, rows |-> <<>>,
     malformed |-> bad]

AcceptRowAnyWidth(row, header, required) ==
    /\ \E i \in 1..Len(row) : row[i] # <<>>
    /\ Cardinality({i \in 1..Len(header) :
                      /\ \E j \in 1..Len(required) : header[i] = <<required[j]>>
                      /\ i <= Len(row)
                      /\ row[i] # <<>>}) >= Len(required)

\* the row test of load_csv_robust: not empty, width within one of the
\* header's, every required column filled
AcceptRow(row, header, required) ==
    /\ \E i \in 1..Len(row) : row[i] # <<>>
    /\ Len(header) - 1 <= Len(row)
    /\ Len(row) <= Len(header) + 1
    /\ Cardinality({i \in 1..Len(header) :
                      /\ \E j \in 1..Len(required) : header[i] = <<required[j]>>
                      /\ i <= Len(row)
                      /\ row[i] # <<>>}) >= Len(required)

\* load_csv_robust from the header check on, on the parsed lines, without
\* header_match: the first line is the header.  Empty rows are skipped;
\* the other rows are accepted or appended to malformed_rows.
LoadRows(parsed, required) ==
    IF parsed = <<>> THEN LoadFailure("IndexError", <<>>)
    ELSE LET header == parsed[1]
             data   == SelectSeq(Tail(parsed),
                                 LAMBDA row : \E i \in 1..Len(row) : row[i] # <<>>)
             kept   == SelectSeq(data,
                                 LAMBDA row : AcceptRow(row, header, required))
             bad    == SelectSeq(data,
                                 LAMBDA row : ~AcceptRow(row, header, required))
         IN IF \E j \in 1..Len(required) : ~Contains(header, <<required[j]>>)
            THEN LoadFailure("Could not find header row with required columns", <<>>)
            ELSE IF kept = <<>>
            THEN LoadFailure("No valid data rows found in file.", bad)
            ELSE [ok |-> TRUE, error |-> "", columns |-> header,
                  rows |-> [i \in 1..Len(kept) |-> FitTo(kept[i], Len(header))],
                  malformed |-> bad]

LoadCsvRobust(text, required) ==
    LoadRows([i \in 1..Len(ReadLines(text)) |-> ParseLine(ReadLines(text)[i])],
             required)

\* the transactions _parse_with_config makes of a loaded table: the three
\* required mappings are assigned first, then every optional mapping whose
\* source column the table has, in order, under its own target field
ParseWithConfig(df, mapping) ==
    LET Assigned(row, field, cell) ==
            LET over == {i \in 1..Len(mapping.optional_columns) :
                           /\ mapping.optional_targets[i] = field
                           /\ HasColumn(df, mapping.optional_columns[i])}
                last == CHOOSE i \in over : \A j \in over : j <= i
            IN IF over = {} THEN cell
               ELSE row[ColumnIndex(df, mapping.optional_columns[last])]
    IN [i \in 1..Len(df.rows) |->
          [date |-> Assigned(df.rows[i], "date",
                             df.rows[i][ColumnIndex(df, mapping.date_column)]),
           description |-> Assigned(df.rows[i], "description",
                             df.rows[i][ColumnIndex(df, mapping.description_column)])]]

\* process_single_file on an existing file: the transactions grouped into
\* monthly output, as <<date, description>> pairs; <<>> when the parse fails
\* or no transaction has a date
ProcessedOutput(text, mapping) ==
    LET df == LoadCsvRobust(text, mapping.required_columns)
    IN IF ~df.ok THEN <<>>
    ELSE LET dated == SelectSeq(ParseWithConfig(df, mapping),
                                \* CSVUtils.parse_date(...) is not None
                                LAMBDA t : RStrip(LStrip(t.date, {" ", "\n"}),
                                                  {" ", "\n"}) = <<DATE1>>)
         IN [i \in 1..Len(dated) |-> <<dated[i].date, dated[i].description>>]

-----------------------------------------------------------------------------
(* The documents of the model: a header line, at most MaxRows data lines    *)
(* drawn from the row variants, with or without a final line feed; and the  *)
(* empty file.                                                              *)

MaxRows == 2
MaxOps  == 3

RowPlain    == <<DATE1, ",", "memo", ",", "12.50">>
RowExtra    == <<"\"", "x", ",", "y", "\"", ",", DATE1, ",", LONGTEXT, ",", "12.50">>

\* the data lines a document is made of; <<>> is a blank line
RowVariants == {RowPlain, <<DATE1, ",", LONGTEXT, ",", "12.50">>, <<DATE1, ",", "\"", "memo", "\n", "memo", "\"", ",", "12.50">>, RowExtra, <<>>}

RECURSIVE HeaderText(_)
HeaderText(cols) ==
    IF cols = <<>> THEN <<>>
    ELSE IF Len(cols) = 1 THEN <<cols[1]>>
    ELSE <<cols[1], ",">> \o HeaderText(Tail(cols))

DocText(cols, rows, nl) ==
    JoinLines(<<HeaderText(cols)>> \o rows) \o (IF nl THEN <<"\n">> ELSE <<>>)

InvoiceHeader == <<"Date", "Description", "Total">>
ShortHeader   == <<"Date", "Total">>

\* the headers a document uploaded for a source is given
HeadersOf(source) ==
    CASE Lower(source) = "chase" -> {<<"Posting Date", "Description", "Amount">>, <<"Details", "Posting Date", "Description", "Amount">>,
                                     <<"Posting Date", "Details", "Amount">>}
      [] Lower(source) = "bankofamerica" -> {<<"Date", "Original Description", "Amount", "Status">>}
      [] Lower(source) = "restaurantdepot" -> {InvoiceHeader, ShortHeader}
      [] OTHER -> {InvoiceHeader}

Docs(source) ==
    {DocText(h, rows, nl) :
        h \in HeadersOf(source),
        rows \in UNION {[1..k -> RowVariants] : k \in 0..MaxRows},
        nl \in BOOLEAN}
    \cup {<<>>}

-----------------------------------------------------------------------------
(* State                                                                    *)

VARIABLES
    src,         \* the source the document was uploaded for ("" before)
    kind,        \* "csv", "other_type" or "oversize": see Files
    meta,        \* the saved sample metadata of the source
    doc,         \* the document in the source's input directory
    bak,         \* its sibling <name>.csv.backup
    res,         \* the latest validation result: [have, by, r]
    pc,          \* position of the apply-fix handler: "idle", "fixing", "fix_write"
    todo,        \* apply-fix: the fixable issues not yet handled
    pending,     \* apply-fix: the text the running fixer is about to write
    applied,     \* apply-fix: number of fixes that reported success
    reply,       \* the message of the latest response
    out,         \* the rows written to the monthly output files
    ops,         \* number of requests served
    first,       \* history: the document before the first fixer write
    nfix,        \* history: number of fixer writes since the upload
    pass1,       \* history: the fixable issues the validation that opened the
                 \* latest apply-fix on an already fixed document reported
    sinceWrite,  \* history: a validation ran after the last write to doc
    mappings,    \* SourceMappingManager.mappings: lower-case id -> schema
    disk,        \* the config directory: file stem -> file content
    got,         \* the value the latest get_mapping returned
    lastPut,     \* history: lower-case id -> the schema last put by this manager
    removed,     \* the latest remove_mapping call and what it returned
    resp,        \* the status of the latest mapping route response (0: none)
    writer,      \* the add_mapping or remove_mapping in flight, and its position
    snap,        \* what the latest concurrent read returned
    call         \* the latest direct call of a function: argument and result

vars == <<src, kind, meta, doc, bak, res, pc, todo, pending, applied, reply,
          out, ops, first, nfix, pass1, sinceWrite, mappings, disk, got, lastPut,
          removed, resp, writer, snap, call>>

docVars == <<src, kind, meta, doc, bak, res, pc, todo, pending, applied, reply,
             out, first, nfix, pass1, sinceWrite>>
regVars == <<mappings, disk, got, lastPut, removed, resp, writer, snap, call>>

\* get_source_config(source)["name"]: the source_id of the mapping found
SourceEnum(source) == mappings[Lower(source)].source_id

NoRemoved == [have |-> FALSE, id |-> "", ret |-> FALSE]
NoCall == [fn |-> "", arg |-> <<>>, ret |-> <<>>]
NoWriter == [pc |-> "idle", op |-> "", key |-> "", id |-> "",
             schema |-> DefaultMapping("gg"), before |-> <<>>]
NoSnap == [have |-> FALSE, ids |-> {}, result |-> <<>>, during |-> NoWriter]
NoGot == [have |-> FALSE, id |-> "", found |-> FALSE, schema |-> DefaultMapping("gg")]

NoPass == [have |-> FALSE, issues |-> <<>>]
NoResult == [have |-> FALSE, by |-> "", r |-> NewResult]
ResultOf(by, r) == [have |-> TRUE, by |-> by, r |-> r]

\* the state after construction, but for the registry and its directory
InitRest ==
    /\ src = ""
    /\ kind = "csv"
    /\ meta = [have |-> FALSE, columns |-> <<>>]
    /\ doc = NoFile
    /\ bak = NoFile
    /\ res = NoResult
    /\ pc = "idle"
    /\ todo = <<>>
    /\ pending = <<>>
    /\ applied = 0
    /\ reply = ""
    /\ out = <<>>
    /\ ops = 0
    /\ first = <<>>
    /\ nfix = 0
    /\ pass1 = NoPass
    /\ sinceWrite = FALSE
    /\ got = NoGot
    /\ lastPut = <<>>
    /\ removed = NoRemoved
    /\ resp = 0
    /\ writer = NoWriter
    /\ snap = NoSnap

\* construction without a config directory, or with an empty one
Init ==
    /\ mappings = DefaultMappings
    /\ disk = <<>>
    /\ call = NoCall
    /\ InitRest

-----------------------------------------------------------------------------
(* The file routes.  One document slot is modelled: every request names     *)
(* the same source and file name.  A handler runs to its end before the     *)
(* next request is served; apply-fix is split at its file operations.       *)

\* a validator has run: the files it leaves and the result it returns
Validated(by, v) ==
    /\ doc' = v.doc
    /\ bak' = v.bak
    /\ res' = ResultOf(by, v.r)

\* POST /upload/{source}: save the file, then validate it
Upload(source, text) ==
    /\ pc = "idle"
    /\ ops < MaxOps
    /\ IF meta.have
       THEN Validated("validate_file_against_metadata",
                      ValidateFileAgainstMetadata(FileOf(text), kind, bak, source, meta))
       ELSE Validated("validate_csv_file",
                      ValidateCsvFile(FileOf(text), kind, bak, SourceEnum(source)))
    /\ reply' = IF res'.r.valid THEN "uploaded" ELSE "uploaded_with_errors"
    /\ src' = source
    /\ first' = <<>>
    /\ nfix' = 0
    /\ pass1' = NoPass
    /\ sinceWrite' = TRUE
    /\ ops' = ops + 1
    /\ UNCHANGED <<kind, meta, pc, todo, pending, applied, out>>
    /\ UNCHANGED regVars

FirstUpload ==
    /\ ~doc.exists
    /\ src = ""
    /\ \E source \in {"chase", "bankofamerica", "restaurantdepot"} : \E text \in Docs(source) : Upload(source, text)

CorrectedUpload ==
    /\ doc.exists
    /\ \E h \in HeadersOf(src) \ {ShortHeader} :
          Upload(src, DocText(h, <<RowPlain>>, TRUE))

\* GET /validate/{source}/{filename} and GET /analyze/{source}/{filename}
Validate ==
    /\ pc = "idle"
    /\ ops < MaxOps
    /\ doc.exists
    /\ Validated("validate_csv_file", ValidateCsvFile(doc, kind, bak, SourceEnum(src)))
    /\ reply' = IF res'.r.valid THEN "valid" ELSE "invalid"
    /\ sinceWrite' = TRUE
    /\ ops' = ops + 1
    /\ UNCHANGED <<src, kind, meta, pc, todo, pending, applied, out, first, nfix, pass1>>
    /\ UNCHANGED regVars

\* POST /fix/{source}/{filename}, up to the loop over the issues
FixBegin ==
    /\ pc = "idle"
    /\ ops < MaxOps
    /\ doc.exists
    /\ Validated("validate_csv_file", ValidateCsvFile(doc, kind, bak, SourceEnum(src)))
    /\ todo' = SelectSeq(res'.r.issues_detected, IsFixable)
    /\ pass1' = IF nfix > 0 THEN [have |-> TRUE, issues |-> todo'] ELSE pass1
    /\ pc' = "fixing"
    /\ applied' = 0
    /\ pending' = <<>>
    /\ sinceWrite' = TRUE
    /\ ops' = ops + 1
    /\ UNCHANGED <<src, kind, meta, reply, out, first, nfix>>
    /\ UNCHANGED regVars

\* the fixer reads the document; FALSE when it gives up before any write
FixerReads(fixer, text) ==
    CASE fixer = "csv_formatting_issues" -> CsvReader(text) # <<>>
      [] fixer = "chase_column_misalignment" -> PdReadCsv(text).ok
      [] OTHER -> FALSE

\* _apply_source_specific_fix returns success False: no fixer for the issue,
\* or the fixer failed before it touched a file
FixSkip ==
    /\ pc = "fixing"
    /\ todo # <<>>
    /\ ~FixerReads(FixerOf(Head(todo), SourceEnum(src)), doc.text)
    /\ todo' = Tail(todo)
    /\ UNCHANGED <<src, kind, meta, doc, bak, res, pc, pending, applied, reply,
                   out, ops, first, nfix, pass1, sinceWrite>>
    /\ UNCHANGED regVars

\* the backup step of _fix_csv_formatting_issues: os.rename(file, backup);
\* pending is what writer.writerows(cleaned_rows) will write
BackupByRename ==
    /\ bak' = doc
    /\ doc' = NoFile
    /\ pending' = WriteRows(CleanedRows(doc.text))

\* the backup step of _fix_chase_column_misalignment: df.to_csv(backup_path);
\* pending is what df.to_csv(file_path) will write
BackupByToCsv ==
    /\ bak' = FileOf(ToCsv(PdReadCsv(doc.text)))
    /\ doc' = doc
    /\ pending' = ToCsv(SimplifyDescriptions(PdReadCsv(doc.text)))

FixBackup ==
    /\ pc = "fixing"
    /\ todo # <<>>
    /\ LET fixer == FixerOf(Head(todo), SourceEnum(src))
       IN /\ FixerReads(fixer, doc.text)
          /\ IF fixer = "csv_formatting_issues" THEN BackupByRename
             ELSE BackupByToCsv
    /\ pc' = "fix_write"
    /\ first' = IF nfix = 0 THEN doc.text ELSE first
    /\ UNCHANGED <<src, kind, meta, res, todo, applied, reply, out, ops, nfix,
                   pass1, sinceWrite>>
    /\ UNCHANGED regVars

\* the fixer writes the document and reports success
FixWrite ==
    /\ pc = "fix_write"
    /\ doc' = FileOf(pending)
    /\ pending' = <<>>
    /\ applied' = applied + 1
    /\ todo' = Tail(todo)
    /\ nfix' = nfix + 1
    /\ sinceWrite' = FALSE
    /\ pc' = "fixing"
    /\ UNCHANGED <<src, kind, meta, bak, res, reply, out, ops, first, pass1>>
    /\ UNCHANGED regVars

\* the response of apply_automatic_fixes
FixReport ==
    /\ pc = "fixing"
    /\ todo = <<>>
    /\ reply' = IF applied > 0 THEN "Automatic fixes applied successfully" ELSE "No automatic fixes were needed"
    /\ pc' = "idle"
    /\ UNCHANGED <<src, kind, meta, doc, bak, res, todo, pending, applied, out,
                   ops, first, nfix, pass1, sinceWrite>>
    /\ UNCHANGED regVars

\* POST /process/{source}/{filename}: DataProcessor.process_single_file
Process ==
    /\ pc = "idle"
    /\ ops < MaxOps
    /\ doc.exists
    /\ LET mapping == mappings[Lower(SourceEnum(src))]
           rows == ProcessedOutput(doc.text, mapping)
       IN /\ out' = IF rows # <<>> THEN rows ELSE out
          /\ reply' = IF LoadCsvRobust(doc.text, mapping.required_columns).ok
                      THEN "File processed successfully"
                      ELSE "Processing failed"
    /\ ops' = ops + 1
    /\ UNCHANGED <<src, kind, meta, doc, bak, res, pc, todo, pending, applied,
                   first, nfix, pass1, sinceWrite>>
    /\ UNCHANGED regVars

Next ==
    \/ FirstUpload
    \/ CorrectedUpload
    \/ Validate
    \/ FixBegin
    \/ FixSkip
    \/ FixBackup
    \/ FixWrite
    \/ FixReport
    \/ Process

Spec == Init /\ [][Next]_vars

\* the fixer fails while it writes the document, and returns success False
\* from its except clause: open(file_path, 'w') raises and leaves the path
\* as it is, or the write raises after open has created or truncated the
\* file
FixWriteFails(failure) ==
    /\ pc = "fix_write"
    /\ doc' = IF failure = "open_failed" THEN doc ELSE FileOf(<<>>)
    /\ pending' = <<>>
    /\ todo' = Tail(todo)
    /\ sinceWrite' = FALSE
    /\ pc' = "fixing"
    /\ UNCHANGED <<src, kind, meta, bak, res, applied, reply, out, ops, first,
                   nfix, pass1>>
    /\ UNCHANGED regVars

\* the file routes with writes of the document that can fail
SpecFault ==
    Init /\ [][Next \/ \E failure \in {"open_failed", "write_failed"} :
                          FixWriteFails(failure)]_vars

-----------------------------------------------------------------------------
(* The source mapping registry: SourceMappingManager.  The manager keeps    *)
(* the schemas in memory under the lower-case id and one JSON file per      *)
(* schema, named by the id as the caller wrote it.                          *)

\* the ids the registry is called with
RegIds == {"acme", "Acme", "chase"}

\* the schemas put into the registry
RegSchemas ==
    {Schema(id, name, "Date", "Description", "Amount", <<>>, "MM/DD/YYYY") :
        id \in RegIds, name \in {"v1", "v2"}}

\* json.dump(mapping.dict(), f): the file a completed write leaves
JsonFile(schema) == [format |-> "json", data |-> schema]

\* SourceMappingConfig(**json.load(f)) succeeds
Loadable(file) == file.format = "json"

Put(f, key, value) ==
    [k \in DOMAIN f \cup {key} |-> IF k = key THEN value ELSE f[k]]

Drop(f, key) == [k \in DOMAIN f \ {key} |-> f[k]]

\* _save_mapping: the outcomes of open() and json.dump(); a failure is
\* printed and swallowed
WriteOutcomes == {"written", "open_failed", "dump_failed"}

SaveMapping(files, schema, outcome) ==
    CASE outcome = "written" -> Put(files, schema.source_id, JsonFile(schema))
      [] outcome = "dump_failed" -> Put(files, schema.source_id, [format |-> "torn", data |-> DefaultMapping("gg")])
      [] OTHER -> files

\* _delete_mapping_file
DeleteMappingFile(files, id, unlinked) ==
    IF id \in DOMAIN files /\ unlinked THEN Drop(files, id) ELSE files

GetKeyAsWritten(id) == id

\* the key get_mapping looks up
GetKey(id) == Lower(id)

\* add_mapping
AddMapping(schema, outcome) ==
    /\ ops < MaxOps
    /\ mappings' = Put(mappings, Lower(schema.source_id), schema)
    /\ disk' = SaveMapping(disk, schema, outcome)
    /\ lastPut' = Put(lastPut, Lower(schema.source_id), schema)
    /\ got' = NoGot
    /\ removed' = NoRemoved
    /\ ops' = ops + 1
    /\ UNCHANGED <<resp, writer, snap, call>>
    /\ UNCHANGED docVars

\* remove_mapping
RemoveMapping(id, unlinked) ==
    /\ ops < MaxOps
    /\ IF Lower(id) \in DOMAIN mappings
       THEN /\ mappings' = Drop(mappings, Lower(id))
            /\ disk' = DeleteMappingFile(disk, id, unlinked)
       ELSE UNCHANGED <<mappings, disk>>
    /\ lastPut' = Drop(lastPut, Lower(id))
    /\ got' = NoGot
    /\ removed' = [have |-> TRUE, id |-> id, ret |-> Lower(id) \in DOMAIN mappings]
    /\ ops' = ops + 1
    /\ UNCHANGED <<resp, writer, snap, call>>
    /\ UNCHANGED docVars

\* get_mapping
GetMapping(id) ==
    /\ ops < MaxOps
    /\ got' = IF GetKey(id) \in DOMAIN mappings
              THEN [have |-> TRUE, id |-> id, found |-> TRUE,
                    schema |-> mappings[GetKey(id)]]
              ELSE [NoGot EXCEPT !.have = TRUE, !.id = id]
    /\ ops' = ops + 1
    /\ UNCHANGED <<mappings, disk, lastPut, removed, resp, writer, snap, call>>
    /\ UNCHANGED docVars

\* _load_mappings: the maps it may return for a config directory.  Files
\* whose stems differ only in case are loaded in directory order, so either
\* may win.  What a file holds is stored as it is.
LoadedFrom(dir) ==
    LET files == {f \in DOMAIN dir : Loadable(dir[f])}
        keys  == {Lower(f) : f \in files}
    IN {[k \in DefaultIds \cup keys |->
            IF k \in keys THEN dir[last[k]].data ELSE DefaultMapping(k)] :
        last \in {l \in [keys -> files] : \A k \in keys : Lower(l[k]) = k}}

\* a restart: SourceMappingManager.__init__ runs _load_mappings
LoadMappings ==
    /\ ops < MaxOps
    /\ mappings' \in LoadedFrom(disk)
    /\ lastPut' = <<>>
    /\ got' = NoGot
    /\ removed' = NoRemoved
    /\ ops' = ops + 1
    /\ UNCHANGED <<resp, writer, snap, call>>
    /\ UNCHANGED disk
    /\ UNCHANGED docVars

-----------------------------------------------------------------------------
(* Readers concurrent with a writer.  add_mapping and remove_mapping are    *)
(* taken statement by statement; get_mapping and get_all_mappings may run   *)
(* between any two statements.  One dict operation (item assignment, del,   *)
(* get, copy) is atomic in CPython, and the schema stored is a finished     *)
(* SourceMappingConfig object held by reference.                            *)

\* the number of writes a behaviour of the concurrent registry makes
MaxWrites == 2

StoreEntryPartial(held, key, schema) ==
    Put(held, key, [schema EXCEPT !.amount_column = ""])

\* self.mappings[mapping.source_id.lower()] = mapping
StoreEntry(held, key, schema) == Put(held, key, schema)

\* add_mapping, first statement
AddStore(schema) ==
    /\ writer.pc = "idle" /\ ops < MaxWrites
    /\ mappings' = StoreEntry(mappings, Lower(schema.source_id), schema)
    /\ lastPut' = Put(lastPut, Lower(schema.source_id), schema)
    /\ writer' = [pc |-> "save", op |-> "add", key |-> Lower(schema.source_id),
                  id |-> schema.source_id, schema |-> schema, before |-> mappings]
    /\ got' = NoGot
    /\ removed' = NoRemoved
    /\ ops' = ops + 1
    /\ UNCHANGED <<disk, resp, snap, call>>
    /\ UNCHANGED docVars

\* add_mapping, second statement: _save_mapping
AddSave(outcome) ==
    /\ writer.pc = "save"
    /\ disk' = SaveMapping(disk, writer.schema, outcome)
    /\ writer' = NoWriter
    /\ UNCHANGED <<mappings, lastPut, got, removed, resp, snap, call, ops>>
    /\ UNCHANGED docVars

\* remove_mapping, the membership test; false is returned when it fails
RemoveTest(id) ==
    /\ writer.pc = "idle" /\ ops < MaxWrites
    /\ IF Lower(id) \in DOMAIN mappings
       THEN /\ writer' = [NoWriter EXCEPT !.pc = "del", !.op = "remove",
                             !.key = Lower(id), !.id = id, !.before = mappings]
            /\ UNCHANGED removed
       ELSE /\ removed' = [have |-> TRUE, id |-> id, ret |-> FALSE]
            /\ UNCHANGED writer
    /\ got' = NoGot
    /\ ops' = ops + 1
    /\ UNCHANGED <<mappings, disk, lastPut, resp, snap, call>>
    /\ UNCHANGED docVars

\* remove_mapping: del self.mappings[source_id_lower]
RemoveDel ==
    /\ writer.pc = "del"
    /\ mappings' = Drop(mappings, writer.key)
    /\ lastPut' = Drop(lastPut, writer.key)
    /\ writer' = [writer EXCEPT !.pc = "unlink"]
    /\ UNCHANGED <<disk, got, removed, resp, snap, call, ops>>
    /\ UNCHANGED docVars

\* remove_mapping: _delete_mapping_file, and true is returned
RemoveUnlink(unlinked) ==
    /\ writer.pc = "unlink"
    /\ disk' = DeleteMappingFile(disk, writer.id, unlinked)
    /\ removed' = [have |-> TRUE, id |-> writer.id, ret |-> TRUE]
    /\ writer' = NoWriter
    /\ UNCHANGED <<mappings, lastPut, got, resp, snap, call, ops>>
    /\ UNCHANGED docVars

\* get_mapping from another task
ReadMapping(id) ==
    /\ snap' = [have |-> TRUE, ids |-> {GetKey(id)},
                result |-> [k \in {GetKey(id)} \cap DOMAIN mappings |-> mappings[k]],
                during |-> (IF writer.pc = "idle" THEN [NoWriter EXCEPT !.before = mappings] ELSE writer)]
    /\ UNCHANGED <<mappings, disk, lastPut, got, removed, resp, writer, call, ops>>
    /\ UNCHANGED docVars

\* get_all_mappings from another task: self.mappings.copy()
ReadAllMappings ==
    /\ snap' = [have |-> TRUE, ids |-> ({Lower(id) : id \in RegIds} \cup DefaultIds),
                result |-> [k \in DOMAIN mappings |-> mappings[k]],
                during |-> (IF writer.pc = "idle" THEN [NoWriter EXCEPT !.before = mappings] ELSE writer)]
    /\ UNCHANGED <<mappings, disk, lastPut, got, removed, resp, writer, call, ops>>
    /\ UNCHANGED docVars

NextConc ==
    \/ \E schema \in RegSchemas : AddStore(schema)
    \/ \E outcome \in WriteOutcomes : AddSave(outcome)
    \/ \E id \in RegIds : RemoveTest(id)
    \/ RemoveDel
    \/ \E unlinked \in BOOLEAN : RemoveUnlink(unlinked)
    \/ \E id \in RegIds : ReadMapping(id)
    \/ ReadAllMappings

SpecConc == Init /\ [][NextConc]_vars

-----------------------------------------------------------------------------
(* MappingValidationService.validate_mapping_comprehensive.  pydantic       *)
(* makes the three column mappings mandatory, so the "mapping is required"  *)
(* errors cannot arise.  Of the sample data check the model keeps the       *)
(* errors; the conversion tests only give warnings.                         *)

StructureErrorsFirstOnly(schema) ==
    LET cols == <<schema.date_column, schema.description_column,
                  schema.amount_column>> \o schema.optional_columns
    IN IF Len(cols) # Cardinality(Range(cols))
       THEN << <<"Duplicate source columns found">> >>
       ELSE IF ~(Range(cols) \subseteq Range(schema.expected_columns))
       THEN << <<"Expected columns missing mapped columns">> >>
       ELSE <<>>

\* SourceMappingManager.validate_mapping and _validate_structure, which
\* have the same body
StructureErrors(schema) ==
    LET cols == <<schema.date_column, schema.description_column,
                  schema.amount_column>> \o schema.optional_columns
    IN (IF Len(cols) # Cardinality(Range(cols))
        THEN << <<"Duplicate source columns found">> >> ELSE <<>>)
       \o (IF ~(Range(cols) \subseteq Range(schema.expected_columns))
           THEN << <<"Expected columns missing mapped columns">> >> ELSE <<>>)

\* the errors of _validate_formats; "" stands for no date_format.
\* datetime.strptime("01/15/2024", format) succeeds, format being the
\* declared one after the translation of the four named formats: the test
\* date has the month first and slashes, so that of the four names only
\* MM/DD/YYYY (%m/%d/%Y) parses it
FormatErrors(schema) ==
    IF schema.date_format # "" /\ schema.date_format \notin {"MM/DD/YYYY", "%m/%d/%Y"}
    THEN << <<"Invalid date format: ", schema.date_format>> >>
    ELSE <<>>

\* the errors of _validate_against_sample_data: a required mapping whose
\* source column is not a column of pd.DataFrame(sample_data)
SampleErrors(schema, sample_data) ==
    LET columns == UNION Range(sample_data)
        required == <<schema.date_column, schema.description_column,
                      schema.amount_column>>
        absent == SelectSeq(required, LAMBDA col : col \notin columns)
    IN IF sample_data = <<>> THEN <<>>
       ELSE [i \in 1..Len(absent) |->
               <<"Required column not found in sample data: ", absent[i]>>]

\* sample_data = <<>> stands for a call without sample data, or with none
ValidateMappingComprehensive(schema, sample_data) ==
    LET errors == StructureErrors(schema) \o FormatErrors(schema)
                  \o SampleErrors(schema, sample_data)
    IN [NewResult EXCEPT !.valid = (Len(errors) = 0), !.errors = errors]

-----------------------------------------------------------------------------
(* The mapping routes POST /mappings and PUT /mappings/{source_id}.  Each   *)
(* refusal is an HTTPException raised before add_mapping is reached.        *)

\* the schemas submitted to the routes
RouteSchemas ==
    LET new == Schema("acme", "v3", "Date", "Description", "Amount", <<>>,
                      "MM/DD/YYYY")
    IN {new,
        [new EXCEPT !.source_id = "chase"],
        [new EXCEPT !.example_data = <<>>],
        [new EXCEPT !.amount_column = "Description"],
        [new EXCEPT !.expected_columns = <<"Date", "Description">>],
        [new EXCEPT !.date_format = "DD/MM/YYYY"],
        [new EXCEPT !.date_format = "YYYY-MM-DD"],
        [new EXCEPT !.date_format = "MM-DD-YYYY"],
        [new EXCEPT !.example_data = << {"Date", "Description"} >>],
        [new EXCEPT !.optional_columns = <<"Memo">>,
                    !.optional_targets = <<"date">>,
                    !.expected_columns = <<"Date", "Description", "Amount", "Memo">>,
                    !.example_data = << {"Date", "Description", "Amount", "Memo"} >>]}

\* the status create_source_mapping answers with
CreateStatus(schema, held) ==
    IF schema.example_data = <<>> THEN 400
    ELSE IF ~ValidateMappingComprehensive(schema, schema.example_data).valid THEN 400
    ELSE IF Lower(schema.source_id) \in DOMAIN held THEN 409
    ELSE 200

\* the status update_source_mapping answers with
UpdateStatus(id, schema, held) ==
    IF schema.example_data = <<>> THEN 400
    ELSE IF ~ValidateMappingComprehensive(schema, schema.example_data).valid THEN 400
    ELSE IF Lower(id) \notin DOMAIN held THEN 404
    ELSE IF Lower(schema.source_id) # Lower(id) THEN 400
    ELSE 200

ReachedAlways(status) == TRUE

\* mapping_manager.add_mapping(mapping) is reached: no HTTPException before
Reached(status) == status = 200

\* the end of both routes: add_mapping when it is reached, and the response
Respond(status, schema, outcome) ==
    /\ resp' = status
    /\ IF Reached(status)
       THEN /\ mappings' = Put(mappings, Lower(schema.source_id), schema)
            /\ disk' = SaveMapping(disk, schema, outcome)
            /\ lastPut' = Put(lastPut, Lower(schema.source_id), schema)
       ELSE UNCHANGED <<mappings, disk, lastPut>>
    /\ got' = NoGot
    /\ removed' = NoRemoved
    /\ ops' = ops + 1
    /\ UNCHANGED <<writer, snap, call>>
    /\ UNCHANGED docVars

CreateSourceMapping(schema, outcome) ==
    /\ ops < MaxOps
    /\ Respond(CreateStatus(schema, mappings), schema, outcome)

UpdateSourceMapping(id, schema, outcome) ==
    /\ ops < MaxOps
    /\ Respond(UpdateStatus(id, schema, mappings), schema, outcome)

\* SourceMappingManager.__init__
InitReg ==
    LET \* the config directories found at start-up: none or an empty one, and one
        \* with a file written independently of the running process
        ConfigDirs ==
            {<<>>,
             [f \in {"acme"} |->
                JsonFile([Schema("acme", "v0", "Date", "Description", "Amount", <<>>,
                                 "MM/DD/YYYY") EXCEPT !.amount_column = "Description"])]}
    IN
    /\ call = NoCall
    /\ disk \in ConfigDirs
    /\ mappings \in LoadedFrom(disk)
    /\ InitRest

NextReg ==
    \/ \E schema \in RegSchemas : \E outcome \in WriteOutcomes :
          AddMapping(schema, outcome)
    \/ \E id \in RegIds : \E unlinked \in BOOLEAN : RemoveMapping(id, unlinked)
    \/ \E id \in RegIds : GetMapping(id)
    \/ LoadMappings
    \/ \E schema \in RouteSchemas : \E outcome \in WriteOutcomes :
          CreateSourceMapping(schema, outcome)
    \/ \E id \in RegIds : \E schema \in RouteSchemas : \E outcome \in WriteOutcomes :
          UpdateSourceMapping(id, schema, outcome)

SpecReg == InitReg /\ [][NextReg]_vars

\* the schemas submitted for validation
ValSchemas ==
    LET good == DefaultMapping("gg")
    IN {good,
        [good EXCEPT !.date_format = "DD/MM/YYYY"],
        [good EXCEPT !.amount_column = "Description"],
        [good EXCEPT !.expected_columns = <<"Date", "Description">>],
        [good EXCEPT !.optional_columns = <<"Date">>,
                     !.optional_targets = <<"date2">>],
        [good EXCEPT !.optional_columns = <<"Memo", "Memo">>,
                     !.optional_targets = <<"memo", "memo2">>,
                     !.expected_columns = <<"Date", "Description", "Amount", "Memo">>],
        [good EXCEPT !.amount_column = "Description",
                     !.expected_columns = <<"Date", "Amount">>]}

-----------------------------------------------------------------------------
(* The validators called directly, on a document already in place: one of   *)
(* the documents uploaded for the source, or one of StructureRows distinct  *)
(* rows under a header without the Amount column.                           *)

\* the number of direct calls made on one drawn input
MaxCalls == 1

InitVal ==
    /\ src \in Sources
    /\ kind \in {"csv", "other_type", "oversize"}
    /\ meta \in {[have |-> FALSE, columns |-> <<>>],
                 [have |-> TRUE, columns |-> <<"Date", "Total", "Item", "Quantity">>]}
    /\ doc \in {NoFile} \cup {FileOf(text) : text \in Docs(src)}
                \cup {FileOf(DocText(h, [i \in 1..StructureRows |->
                                            <<DATE1, ",", "memo", ",",
                                              <<"12.50", "x", "y", "z", "memo">>[i]>>],
                                     TRUE)) :
                         h \in {<<"Date", "Original Description", "Status">>,
                                <<"Details", "Posting Date", "Description">>}}
    /\ kind # "csv" => doc \in {NoFile, FileOf(DocText(InvoiceHeader, <<RowPlain>>, TRUE))}
    /\ first = <<>>
    /\ pass1 = NoPass
    /\ bak = NoFile
    /\ res = NoResult
    /\ pc = "idle"
    /\ todo = <<>>
    /\ pending = <<>>
    /\ applied = 0
    /\ reply = ""
    /\ out = <<>>
    /\ ops = 0
    /\ nfix = 0
    /\ sinceWrite = FALSE
    /\ mappings = DefaultMappings
    /\ disk = <<>>
    /\ got = NoGot
    /\ lastPut = <<>>
    /\ removed = NoRemoved
    /\ resp = 0
    /\ writer = NoWriter
    /\ snap = NoSnap
    /\ call = NoCall

\* validation_service.validate_csv_file(file_path, source)
CallValidateCsvFile ==
    /\ ops < MaxCalls
    /\ Validated("validate_csv_file", ValidateCsvFile(doc, kind, bak, src))
    /\ sinceWrite' = TRUE
    /\ ops' = ops + 1
    /\ UNCHANGED <<src, kind, meta, pc, todo, pending, applied, reply, out, first, nfix, pass1>>
    /\ UNCHANGED regVars

\* validation_service.validate_file_against_metadata(file_path, source)
CallValidateFileAgainstMetadata ==
    /\ ops < MaxCalls
    /\ Validated("validate_file_against_metadata",
                 ValidateFileAgainstMetadata(doc, kind, bak, src, meta))
    /\ sinceWrite' = TRUE
    /\ ops' = ops + 1
    /\ UNCHANGED <<src, kind, meta, pc, todo, pending, applied, reply, out, first, nfix, pass1>>
    /\ UNCHANGED regVars

\* mapping_validation_service.validate_mapping_comprehensive(mapping)
CallValidateMappingComprehensive(schema) ==
    /\ ops < MaxCalls
    /\ res' = ResultOf("validate_mapping_comprehensive",
                       ValidateMappingComprehensive(schema, <<>>))
    /\ ops' = ops + 1
    /\ UNCHANGED <<src, kind, meta, doc, bak, pc, todo, pending, applied, reply,
                   out, first, nfix, pass1, sinceWrite>>
    /\ UNCHANGED regVars

\* mapping_manager.validate_mapping(mapping)
CallValidateMapping(schema) ==
    /\ ops < MaxCalls
    /\ call' = [fn |-> "validate_mapping", arg |-> schema,
                ret |-> StructureErrors(schema)]
    /\ ops' = ops + 1
    /\ UNCHANGED <<mappings, disk, got, lastPut, removed, resp, writer, snap>>
    /\ UNCHANGED docVars

\* validation_service._fix_embedded_linefeeds(content) on the text of the
\* document
CallFixEmbeddedLinefeeds ==
    /\ ops < MaxCalls
    /\ doc.exists
    /\ call' = [fn |-> "_fix_embedded_linefeeds", arg |-> doc.text,
                ret |-> FixEmbeddedLinefeeds(doc.text)]
    /\ ops' = ops + 1
    /\ UNCHANGED <<mappings, disk, got, lastPut, removed, resp, writer, snap>>
    /\ UNCHANGED docVars

NextVal ==
    \/ CallValidateCsvFile
    \/ CallFixEmbeddedLinefeeds
    \/ CallValidateFileAgainstMetadata
    \/ \E schema \in ValSchemas : CallValidateMappingComprehensive(schema)
    \/ \E schema \in ValSchemas : CallValidateMapping(schema)

SpecVal == InitVal /\ [][NextVal]_vars

-----------------------------------------------------------------------------
(* load_csv_robust called as _parse_with_config calls it: with the          *)
(* required_columns of a schema and without header_match.                   *)

InitLoad ==
    LET \* the documents loaded: a three-column header, with or without a line of
        \* other text before it, and at most MaxRows lines of 3, 4, 2, 1, 5 and 0
        \* cells and of three empty cells
        LoadDocs ==
            {(IF noise THEN <<"Account summary", "\n">> ELSE <<>>) \o
             DocText(<<"Date", "Description", "Total">>, rows, nl) :
                noise \in BOOLEAN, nl \in BOOLEAN,
                rows \in UNION {[1..k -> {RowPlain, RowExtra, <<DATE1, ",", "memo">>,
                                          <<"memo">>, RowExtra \o <<",", "z">>,
                                          <<>>, <<",", ",">>}] : k \in 0..MaxRows}}
    IN
    /\ mappings = DefaultMappings
    /\ disk = <<>>
    /\ call \in {[NoCall EXCEPT !.arg = [text |-> text, required |-> required]] :
                    text \in LoadDocs,
                    required \in {<<"Date", "Description">>,
                                  <<"Date", "Description", "Total">>}}
    /\ InitRest

\* load_csv_robust(file_path, metadata={'required_columns': ..., others None})
CallLoadCsvRobust ==
    /\ call.fn = ""
    /\ call' = [call EXCEPT !.fn = "load_csv_robust",
                            !.ret = LoadCsvRobust(call.arg.text, call.arg.required)]
    /\ UNCHANGED <<mappings, disk, got, lastPut, removed, resp, writer, snap, ops>>
    /\ UNCHANGED docVars

SpecLoad == InitLoad /\ [][CallLoadCsvRobust]_vars

-----------------------------------------------------------------------------
(* The PDF table extractor.  The text of a PDF is a sequence of lines, a    *)
(* line a sequence of tokens separated by runs of two or more spaces; a     *)
(* token is one string without such a run.  The section header and the stop *)
(* headers of the model occur only as whole lines.                          *)

\* _normalize_colname: lower case, everything but letters and digits removed
NormalizeColname(name) ==
    CASE name = "Gross" -> "gross"
      [] name = "R&C" -> "rc"
      [] name = "Net" -> "net"
      [] name = "Date" -> "date"
      [] name = "Ref" -> "ref"
      [] name = "Gros5" -> "gros5"
      [] name = "SUMMARY OF MONETARY BATCHES" -> "summaryofmonetarybatches"
      [] name = "STATEMENT" -> "statement"
      [] name = "TOTAL" -> "total"
      [] name = "100.00" -> "10000"
      [] name = "5.00" -> "500"
      [] name = "95.00" -> "9500"
      [] name = "12/05" -> "1205"
      [] name = "01/15/2024" -> "01152024"
      [] name = "R1" -> "r1"
      [] OTHER -> name

\* get_close_matches(n_exp, norm_parts, n=1, cutoff=0.7) finds something:
\* among the normalized names of the model only "gross" and "gros5" have a
\* SequenceMatcher ratio of 0.7 or more (0.8) without being equal
CloseMatch(n_exp, norm_parts) ==
    \E i \in 1..Len(norm_parts) :
        \/ norm_parts[i] = n_exp
        \/ {norm_parts[i], n_exp} = {"gross", "gros5"}

\* _find_column_line: the index of the header line, 0 for None.  A blank
\* line splits into one empty part.
FindColumnLine(lines, expected_columns) ==
    LET hits == {i \in 1..Len(lines) :
                    LET n == Len(expected_columns) - 1
                    IN Cardinality({k \in 1..Len(expected_columns) :
                           \E j \in 1..Len(lines[i]) :
                               NormalizeColname(lines[i][j])
                                   = NormalizeColname(expected_columns[k])})
                          >= (IF n > 1 THEN n ELSE 1)}
    IN IF hits = {} THEN 0 ELSE CHOOSE i \in hits : \A j \in hits : i <= j

\* one body line turned into a row of the table, <<>> when the line gives
\* none.  First the built-in regex
\*   \s*([\d,.-]+)\s+([\d,.-]+)\s+([\d,.-]+)\s+([\d]{1,2}/[\d]{2})?\s*([A-Za-z0-9]+)?
\* matched at the start of the line, then, only when it does not match, the
\* whitespace split.  "<None>" is the None of a group that took no part.
\* The row_pattern argument is not read anywhere in the function.
ParseBodyLine(line, columns) ==
    LET Numeric(t) == t \in {"100.00", "5.00", "95.00"}
        date == CASE line[4] = "12/05" -> "12/05"
                  [] line[4] = "01/15/2024" -> "01/15"
                  [] OTHER -> "<None>"
        AlnumPrefix(t) == CASE t = "100.00" -> "100"
                            [] t = "5.00" -> "5"
                            [] t = "95.00" -> "95"
                            [] OTHER -> t
        ref == IF date = "<None>" THEN AlnumPrefix(line[4])
               ELSE IF line[4] = "12/05" /\ Len(line) >= 5 THEN AlnumPrefix(line[5])
               ELSE "<None>"
        groups == <<line[1], line[2], line[3], date, ref>>
    IN IF Len(line) >= 4 /\ \A i \in 1..3 : Numeric(line[i])
       THEN (IF date # "<None>"
             THEN [i \in 1..Len(columns) |-> IF i <= 5 THEN groups[i] ELSE ""]
             ELSE <<>>)
       ELSE IF Len(line) = Len(columns) THEN line ELSE <<>>

\* _clean_and_validate_table after TableMetadata.analyze_column_types: the
\* pattern of a column is detected on its first value that is not None, and
\* a row is kept when each of its values matches the pattern of its column
CleanAndValidateTable(table, columns) ==
    LET IsDateLike(v) == v \in {"12/05", "01/15", "01/15/2024"}
        IsAmount(v) == v \in {"100.00", "5.00", "95.00"}
        Pattern(c) ==
            LET given == {i \in 1..Len(table) : table[i][c] # "<None>"}
                v == table[CHOOSE i \in given : \A j \in given : i <= j][c]
            IN IF given = {} THEN "none"
               ELSE IF v = "" THEN "empty"
               ELSE IF IsDateLike(v) THEN "date"
               ELSE IF IsAmount(v) THEN "amount"
               ELSE "reference"
        Matches(v, pattern) ==
            CASE pattern = "empty" -> v = ""
              [] pattern = "date" -> IsDateLike(v)
              [] pattern = "amount" -> IsAmount(v)
              [] pattern = "reference" -> v # ""
              [] OTHER -> TRUE
    IN SelectSeq(table, LAMBDA row :
           \A c \in 1..Len(columns) : Matches(row[c], Pattern(c)))

\* extract_section_table_from_pdf(pdf_path, section_header, columns,
\* row_pattern, stop_headers, validate_rows=True)
ExtractSectionTable(text, section_header, columns, stop_headers) ==
    LET starts == {i \in 1..Len(text) : text[i] = <<section_header>>}
        start == CHOOSE i \in starts : \A j \in starts : i <= j
        section == SubSeq(text, start, Len(text))
        stops == {i \in 2..Len(section) :
                     \E k \in 1..Len(stop_headers) : section[i] = <<stop_headers[k]>>}
        lines == IF stops = {} THEN section
                 ELSE SubSeq(section, 1, (CHOOSE i \in stops : \A j \in stops : i <= j) - 1)
        col == FindColumnLine(lines, columns)
        body == SelectSeq(SubSeq(lines, col + 1, Len(lines)), LAMBDA line : line # <<>>)
        parsed == [i \in 1..Len(body) |-> ParseBodyLine(body[i], columns)]
    IN IF starts = {}
       THEN [ok |-> FALSE, error |-> "Section not found in PDF", rows |-> <<>>]
       ELSE IF col = 0
       THEN [ok |-> FALSE, error |-> "Could not find table header matching expected columns",
             rows |-> <<>>]
       ELSE [ok |-> TRUE, error |-> "",
             rows |-> CleanAndValidateTable(SelectSeq(parsed, LAMBDA row : row # <<>>),
                                            columns)]

\* validate_pdf_format: <<is_valid, error_message>>; "" stands for the
\* messages returned with True
ValidatePdfFormat(text, config) ==
    LET starts == {i \in 1..Len(text) : text[i] = <<config.section_header>>}
        start == CHOOSE i \in starts : \A j \in starts : i <= j
        found(col) == \E i \in start..Len(text) :
                         CloseMatch(NormalizeColname(col),
                                    [k \in 1..Len(text[i]) |-> NormalizeColname(text[i][k])])
    IN IF ~config.enabled THEN <<FALSE, "PDF extraction not enabled">>
       ELSE IF starts = {}
       THEN (IF config.error_on_section_not_found
             THEN <<FALSE, "Required section not found in PDF">>
             ELSE <<TRUE, "">>)
       ELSE IF /\ \E k \in 1..Len(config.expected_columns) :
                      ~found(config.expected_columns[k])
               /\ config.error_on_format_mismatch
       THEN <<FALSE, "Expected columns not found in PDF">>
       ELSE <<TRUE, "">>

\* extract_section_table_from_pdf_with_config(pdf_path, vendor, year=2024),
\* with validate_format as given; the result is the table or the ValueError
ExtractWithConfig(text, config, validate_format) ==
    LET checked == ValidatePdfFormat(text, config)
        df == ExtractSectionTable(text, config.section_header,
                                  config.expected_columns, config.stop_headers)
        \* add_year_to_date_column: MM/DD becomes YYYY-MM-DD, a value that
        \* does not split into two parts at "/" is left as it is
        FixDate(v) == CASE v = "12/05" -> "2024-12-05"
                        [] v = "01/15" -> "2024-01-15"
                        [] OTHER -> v
    IN IF ~config.enabled
       THEN [ok |-> FALSE, error |-> "PDF extraction not enabled", rows |-> <<>>]
       ELSE IF validate_format /\ ~checked[1]
       THEN [ok |-> FALSE, error |-> checked[2], rows |-> <<>>]
       ELSE IF ~df.ok THEN df
       ELSE IF Len(df.rows) < config.min_rows /\ config.error_on_no_valid_rows
       THEN [ok |-> FALSE, error |-> "Extracted rows below minimum required",
             rows |-> <<>>]
       ELSE [df EXCEPT !.rows =
               [i \in 1..Len(df.rows) |->
                  [c \in 1..Len(df.rows[i]) |->
                     IF config.expected_columns[c] = config.date_column
                     THEN FixDate(df.rows[i][c]) ELSE df.rows[i][c]]]]

\* the vendor configurations: pdf_extraction of config/<vendor>.json.  The
\* row_pattern "full date rows" stands for the regex
\*   ([\d,.]+)\s+([\d,.]+)\s+([\d,.]+)\s+(\d{2}/\d{2}/\d{4})\s+(\w+)
InitPdf ==
    LET \* the texts extracted: with or without a line before the section, with or
        \* without the section header, one of three column lines or none, and at
        \* most MaxRows body lines
        PdfTexts ==
            {pre \o sec \o col \o body :
                pre \in {<<>>, << <<"STATEMENT">> >>},
                sec \in {<<>>, << <<"SUMMARY OF MONETARY BATCHES">> >>},
                col \in {<<>>, << <<"Gross", "R&C", "Net", "Date", "Ref">> >>,
                         << <<"Gross", "R&C", "Net", "Date">> >>,
                         << <<"Gros5", "R&C", "Net", "Date">> >>},
                body \in UNION {[1..k -> {<<"100.00", "5.00", "95.00", "12/05", "R1">>,
                                          <<"100.00", "5.00", "95.00", "01/15/2024", "R1">>,
                                          <<"100.00", "5.00", "95.00", "R1">>,
                                          <<"memo", "memo", "memo", "12/05", "R1">>,
                                          <<"TOTAL">>, <<>>}] : k \in 0..MaxRows}}
    IN
    /\ mappings = DefaultMappings
    /\ disk = <<>>
    /\ call \in {[NoCall EXCEPT !.arg =
                    [text |-> text,
                     config |-> [enabled |-> TRUE,
                                 section_header |-> "SUMMARY OF MONETARY BATCHES",
                                 expected_columns |-> <<"Gross", "R&C", "Net", "Date", "Ref">>,
                                 date_column |-> "Date",
                                 row_pattern |-> pattern,
                                 stop_headers |-> <<"TOTAL">>,
                                 min_rows |-> 1,
                                 error_on_section_not_found |-> onSection,
                                 error_on_format_mismatch |-> TRUE,
                                 error_on_no_valid_rows |-> onRows]]] :
                    text \in PdfTexts, pattern \in {"", "full date rows"},
                    onSection \in BOOLEAN, onRows \in BOOLEAN}
    /\ InitRest

\* extract_section_table_from_pdf_with_config(pdf_path, vendor, year)
CallExtractWithConfig ==
    /\ call.fn = ""
    /\ call' = [call EXCEPT !.fn = "extract_section_table_from_pdf_with_config",
                            !.ret = ExtractWithConfig(call.arg.text, call.arg.config, TRUE)]
    /\ UNCHANGED <<mappings, disk, got, lastPut, removed, resp, writer, snap, ops>>
    /\ UNCHANGED docVars

\* _find_column_line(lines, expected_columns) on the lines of the text
CallFindColumnLine ==
    /\ call.fn = ""
    /\ call' = [call EXCEPT !.fn = "_find_column_line",
                            !.ret = FindColumnLine(call.arg.text,
                                                   call.arg.config.expected_columns)]
    /\ UNCHANGED <<mappings, disk, got, lastPut, removed, resp, writer, snap, ops>>
    /\ UNCHANGED docVars

SpecPdf == InitPdf /\ [][CallExtractWithConfig \/ CallFindColumnLine]_vars

-----------------------------------------------------------------------------
(* MappingValidationService._validate_against_sample_data with the cells of *)
(* the sample.  A sample row is a function from column names to cells;      *)
(* "<None>" is the cell of a missing value (None or NaN).                   *)

\* the conversion tried on one cell goes through without an exception:
\* pd.to_datetime(value, format) with the declared format translated (no
\* format: inferred), float() of the amount stripped of "$", ",", "(", ")"
\* and with its sign moved to the front, a description that is not blank
ConvertsOk(field_name, value, date_format) ==
    /\ value # "<None>"
    /\ CASE field_name = "date" ->
              \/ value = "01/15/2024" /\ date_format \in {"MM/DD/YYYY", "%m/%d/%Y", ""}
              \/ value = "15/01/2024" /\ date_format \in {"DD/MM/YYYY", "%d/%m/%Y", ""}
         [] field_name = "amount" -> value \in {"$1,234.50", "(12.50)", "12.50-"}
         [] OTHER -> value \notin {"", " "}

LowSuccessRateInclusive(conversion_success, total) ==
    10 * conversion_success <= 8 * total

\* success_rate < 0.8, success_rate being conversion_success / len(df) in
\* floating point: the quotient is rounded to the nearest double and 0.8 is
\* the double nearest to 4/5, so that the test is that of the fractions
LowSuccessRate(conversion_success, total) ==
    10 * conversion_success < 8 * total

\* conversion_success and conversion_failures after the loop over the cells
\* of one column, counted from <<0, 0>>
RECURSIVE CountConversions(_, _, _, _)
CountConversions(field_name, cells, date_format, counted) ==
    IF cells = <<>> THEN counted
    ELSE CountConversions(field_name, Tail(cells), date_format,
            IF ConvertsOk(field_name, Head(cells), date_format)
            THEN <<counted[1] + 1, counted[2]>>
            ELSE <<counted[1], counted[2] + 1>>)

\* _validate_against_sample_data(mapping, sample_data) for a sample that is
\* not empty: errors, the fields warned about, and column_tests with the
\* success_rate as the pair <<conversion_success, len(df)>>
ValidateAgainstSampleData(schema, sample_data) ==
    LET columns == UNION {DOMAIN sample_data[i] : i \in 1..Len(sample_data)}
        source == [date |-> schema.date_column,
                   description |-> schema.description_column,
                   amount |-> schema.amount_column]
        tested == {f \in DOMAIN source : source[f] \in columns}
        Cells(f) == [i \in 1..Len(sample_data) |->
                        IF source[f] \in DOMAIN sample_data[i]
                        THEN sample_data[i][source[f]] ELSE "<None>"]
        Counted(f) == CountConversions(f, Cells(f), schema.date_format, <<0, 0>>)
    IN [errors |-> SampleErrors(schema,
                       [i \in 1..Len(sample_data) |-> DOMAIN sample_data[i]]),
        warnings |-> {f \in tested : LowSuccessRate(Counted(f)[1], Len(sample_data))},
        column_tests |->
            [f \in tested |->
                [source_column |-> source[f],
                 conversion_success |-> Counted(f)[1],
                 conversion_failures |-> Counted(f)[2],
                 success_rate |-> <<Counted(f)[1], Len(sample_data)>>]]]

\* the number of rows of the largest sample
MaxSample == 10

\* the samples: n rows of which the first kd have a date and the first ka an
\* amount that is missing or in another notation, with or without a blank
\* description in the first row, with or without the Amount column
InitSample ==
    /\ mappings = DefaultMappings
    /\ disk = <<>>
    /\ call \in {[NoCall EXCEPT !.arg =
                    [schema |-> [DefaultMapping("gg") EXCEPT !.date_format = fmt],
                     sample_data |->
                        [i \in 1..n |->
                           LET row == [Date |-> IF i > kd THEN "01/15/2024"
                                                ELSE IF i % 2 = 1 THEN "15/01/2024"
                                                ELSE "<None>",
                                       Description |-> IF blank /\ i = 1 THEN " "
                                                       ELSE "memo",
                                       Amount |-> IF i > ka
                                                  THEN (IF i % 2 = 1 THEN "$1,234.50"
                                                        ELSE "(12.50)")
                                                  ELSE IF i % 2 = 1 THEN "abc"
                                                  ELSE "<None>"]
                           IN IF amounts THEN row
                              ELSE [c \in {"Date", "Description"} |-> row[c]]]]] :
                    n \in 1..MaxSample, kd \in 0..MaxSample, ka \in 0..MaxSample,
                    blank \in BOOLEAN, amounts \in BOOLEAN,
                    fmt \in {"MM/DD/YYYY", "DD/MM/YYYY"}}
    /\ InitRest

\* mapping_validation_service._validate_against_sample_data(mapping, sample_data)
CallValidateAgainstSampleData ==
    /\ call.fn = ""
    /\ call' = [call EXCEPT !.fn = "_validate_against_sample_data",
                            !.ret = ValidateAgainstSampleData(call.arg.schema,
                                                              call.arg.sample_data)]
    /\ UNCHANGED <<mappings, disk, got, lastPut, removed, resp, writer, snap, ops>>
    /\ UNCHANGED docVars

SpecSample == InitSample /\ [][CallValidateAgainstSampleData]_vars

-----------------------------------------------------------------------------
(* Properties                                                               *)

FixableIssues(r) ==
    {r.issues_detected[i] : i \in {j \in 1..Len(r.issues_detected) :
                                      r.issues_detected[j].fixable}}

\* C1: every result of validate_csv_file that lists a fixable issue has
\* can_proceed = false and user_action_required = true.
C1_FixableBlocksProceeding ==
    (res.have /\ res.by = "validate_csv_file" /\ FixableIssues(res.r) # {})
        => (~res.r.can_proceed /\ res.r.user_action_required)

\* the parse-error branch, which recomputes can_proceed, with a fixable issue
C1_Witness ==
    /\ res.have /\ res.by = "validate_csv_file"
    /\ FixableIssues(res.r) # {}
    /\ \E i \in 1..Len(res.r.errors) : res.r.errors[i][1] = "CSV parsing error: "

\* C2: processing never produces output from a document whose latest
\* validation reported a fixable issue that no fix or corrected upload has
\* resolved since.
C2_NoOutputWhileFlagged ==
    [][(Process /\ ProcessedOutput(doc.text, mappings[Lower(src)]) # <<>>)
          => ~(res.have /\ sinceWrite /\ FixableIssues(res.r) # {})]_vars

\* C3: every result of validate_csv_file, validate_file_against_metadata and
\* validate_mapping_comprehensive has valid = true exactly when its errors
\* list is empty.
C3_ValidIffNoErrors ==
    res.have => (res.r.valid <=> (res.r.errors = <<>>))

\* validate_csv_file recorded the message of an unfixable issue as an error
C3_Witness ==
    /\ res.have /\ res.by = "validate_csv_file"
    /\ \E i \in 1..Len(res.r.issues_detected) :
          /\ ~res.r.issues_detected[i].fixable
          /\ \E j \in 1..Len(res.r.errors) :
                res.r.errors[j] = res.r.issues_detected[i].message

\* C4: validate_csv_file leaves the document it validates as it was.
C4_ValidationLeavesDocument ==
    [][CallValidateCsvFile => doc' = doc]_vars

\* C5: the backup a fixer leaves before it overwrites the document holds the
\* content the document had immediately before the fix.
C5_BackupHoldsPreFixContent ==
    [][FixBackup => (bak'.exists /\ bak'.text = doc.text)]_vars

\* C6: after several fixes of one document, the content it had before the
\* first fix is still held by the backup.
C6_FirstContentStillBackedUp ==
    (pc = "idle" /\ nfix >= 2) => (bak.exists /\ bak.text = first)

\* C7: apply-fix reports that fixes were applied only when a validation ran
\* after the last write to the document.
C7_SuccessFollowsValidation ==
    [][(FixReport /\ reply' = "Automatic fixes applied successfully") => sinceWrite]_vars

\* C8: after apply-fix has run on an already fixed document, the validation
\* of the resulting document reports no fixable issue that the validation
\* of the already fixed document did not report.
C8_SecondFixAddsNoFixableIssue ==
    (pc = "idle" /\ pass1.have /\ reply \in {"Automatic fixes applied successfully", "No automatic fixes were needed"})
        => FixableIssues(ValidateCsvFile(doc, kind, bak, SourceEnum(src)).r)
              \subseteq Range(pass1.issues)

\* the second apply-fix found a fixable issue and rewrote the document
C8_Witness ==
    /\ pc = "idle" /\ pass1.have /\ reply = "Automatic fixes applied successfully"
    /\ pass1.issues # <<>>
    /\ nfix >= 2

\* C9: after any sequence of add_mapping and remove_mapping calls, failed
\* writes and deletes included, the in-memory map and the files describe the
\* same schemas with the same contents: every file loads into the schema
\* held under its id, and every schema held beyond the built-in ones has
\* its file.
C9_MemoryMatchesDisk ==
    /\ \A f \in DOMAIN disk :
          /\ Loadable(disk[f])
          /\ Lower(f) \in DOMAIN mappings
          /\ mappings[Lower(f)] = disk[f].data
    /\ \A k \in DOMAIN mappings :
          (k \notin DefaultIds \/ mappings[k] # DefaultMapping(k))
             => \E f \in DOMAIN disk :
                   /\ Lower(f) = k
                   /\ Loadable(disk[f])
                   /\ disk[f].data = mappings[k]

\* C10: get_mapping, called with any letter case of an id, returns the
\* schema last put under that id by add_mapping, field for field, as long
\* as no add_mapping or remove_mapping for the id came in between.
C10_GetReturnsLastPut ==
    (got.have /\ Lower(got.id) \in DOMAIN lastPut)
        => (got.found /\ got.schema = lastPut[Lower(got.id)])

\* a get under another letter case than the one the schema was put with
C10_Witness ==
    /\ got.have
    /\ Lower(got.id) \in DOMAIN lastPut
    /\ got.id # lastPut[Lower(got.id)].source_id

\* C11: remove_mapping(id) returns true exactly when a schema is held under
\* id in any letter case; after it returned true, get_mapping(id) finds
\* nothing, and a registry loaded afresh from the built-in defaults and the
\* config directory does not hold id.
C11_RemovedIsGone ==
    [][/\ (\E id \in RegIds : \E unlinked \in BOOLEAN : RemoveMapping(id, unlinked))
            => (removed'.ret <=> Lower(removed'.id) \in DOMAIN mappings)
       /\ (removed.have /\ removed.ret /\ (\E id \in RegIds : GetMapping(id))
              /\ Lower(got'.id) = Lower(removed.id))
            => ~got'.found
       /\ (removed.have /\ removed.ret /\ LoadMappings)
            => Lower(removed.id) \notin DOMAIN mappings']_vars

\* C12: a create or update request that is refused leaves the in-memory map
\* and the files of the config directory exactly as they were.
C12_RefusalChangesNothing ==
    [][(resp' # 200 /\ \E schema \in RouteSchemas : \E outcome \in WriteOutcomes :
            \/ CreateSourceMapping(schema, outcome)
            \/ \E id \in RegIds : UpdateSourceMapping(id, schema, outcome))
        => (mappings' = mappings /\ disk' = disk)]_vars

\* an update was refused because the id of the URL and the id inside the
\* schema differ, while files were on disk
C12_Witness ==
    /\ resp = 400 /\ disk # <<>>
    /\ \E id \in RegIds : \E schema \in RouteSchemas :
          /\ Lower(id) \in DOMAIN mappings
          /\ UpdateStatus(id, schema, mappings) = 400
          /\ schema.example_data # <<>>
          /\ ValidateMappingComprehensive(schema, schema.example_data).valid

\* C13: a get_mapping or get_all_mappings that runs while an add_mapping or
\* remove_mapping is in flight returns, for each source_id, the complete
\* schema held before the write or the one held after it, or absence where
\* that is what the map held; the entries of all other source_ids are the
\* ones held before the write.
C13_ReadsSeeBeforeOrAfter ==
    snap.have =>
        LET w == snap.during
            after == IF w.op = "add" THEN Put(w.before, w.key, w.schema)
                     ELSE IF w.op = "remove" THEN Drop(w.before, w.key)
                     ELSE w.before
            Entry(held, k) == IF k \in DOMAIN held THEN {held[k]} ELSE {}
        IN /\ DOMAIN snap.result \subseteq snap.ids
           /\ \A k \in snap.ids :
                 /\ Entry(snap.result, k) \in {Entry(w.before, k), Entry(after, k)}
                 /\ k # w.key => Entry(snap.result, k) = Entry(w.before, k)

\* get_all_mappings ran between the two statements of an add_mapping that
\* replaces a schema, and returned the new schema
C13_Witness ==
    /\ snap.have /\ snap.during.pc = "save" /\ snap.ids = ({Lower(id) : id \in RegIds} \cup DefaultIds)
    /\ snap.during.key \in DOMAIN snap.during.before
    /\ snap.during.before[snap.during.key] # snap.during.schema
    /\ snap.result[snap.during.key] = snap.during.schema

\* C14: validate_mapping returns no error exactly when no source_column
\* occurs twice among the date, description, amount and optional mappings and
\* every mapped source_column is one of expected_columns; when a schema has
\* both a duplicate and an unmapped column, two separate errors are returned.
C14_StructureErrorsExact ==
    call.fn = "validate_mapping" =>
        LET cols == <<call.arg.date_column, call.arg.description_column,
                      call.arg.amount_column>> \o call.arg.optional_columns
            duplicate == \E i, j \in 1..Len(cols) : i # j /\ cols[i] = cols[j]
            unmapped == \E i \in 1..Len(cols) :
                          \A j \in 1..Len(call.arg.expected_columns) :
                              call.arg.expected_columns[j] # cols[i]
        IN /\ (call.ret = <<>>) <=> (~duplicate /\ ~unmapped)
           /\ (duplicate /\ unmapped)
                 => (Len(call.ret) = 2 /\ call.ret[1] # call.ret[2])

\* validate_mapping was given a schema whose amount mapping repeats the
\* description column, which is not among the expected columns
C14_Witness ==
    /\ call.fn = "validate_mapping" /\ Len(call.ret) = 2
    /\ call.arg.amount_column = call.arg.description_column
    /\ call.arg.amount_column \notin Range(call.arg.expected_columns)

\* C15: in every state of the registry, every schema held has pairwise
\* distinct source_column values across its mappings, and each of them is one
\* of its expected_columns.
C15_HeldSchemasWellFormed ==
    \A k \in DOMAIN mappings :
        LET cols == <<mappings[k].date_column, mappings[k].description_column,
                      mappings[k].amount_column>> \o mappings[k].optional_columns
        IN /\ \A i, j \in 1..Len(cols) : i # j => cols[i] # cols[j]
           /\ \A i \in 1..Len(cols) : cols[i] \in Range(mappings[k].expected_columns)

\* C16: no schema held by the registry has two mappings with the same
\* target_field; in particular no optional mapping has the target field of
\* the date, description or amount mapping.
C16_TargetFieldsDistinct ==
    \A k \in DOMAIN mappings :
        LET targets == <<"date", "description", "amount">>
                       \o mappings[k].optional_targets
        IN \A i, j \in 1..Len(targets) : i # j => targets[i] # targets[j]

\* C17: every non-empty data row of load_csv_robust whose number of cells is
\* outside [header length - 1, header length + 1] is among the malformed
\* rows and not in the returned table.
C17_OutsideWidthIsMalformed ==
    (call.fn = "load_csv_robust" /\ call.ret.error \in {"", "No valid data rows found in file."}) =>
        LET lines == ReadLines(call.arg.text)
            h == Len(ParseLine(lines[1]))
            data == [i \in 1..Len(lines) - 1 |-> ParseLine(lines[i + 1])]
            Outside(row) == /\ \E c \in 1..Len(row) : row[c] # <<>>
                            /\ (Len(row) < h - 1 \/ Len(row) > h + 1)
        IN /\ SelectSeq(call.ret.malformed, Outside) = SelectSeq(data, Outside)
           /\ Len(call.ret.rows) + Len(SelectSeq(data, Outside)) <= Len(data)
           /\ \A i \in 1..Len(call.ret.rows) :
                 \E j \in 1..Len(data) :
                    /\ ~Outside(data[j])
                    /\ \A c \in 1..h : c <= Len(data[j]) => call.ret.rows[i][c] = data[j][c]

\* a table was returned for a document with a five-cell row under the
\* three-cell header
C17_Witness ==
    /\ call.fn = "load_csv_robust" /\ call.ret.ok
    /\ Len(call.ret.columns) = 3
    /\ \E i \in 1..Len(call.ret.malformed) : Len(call.ret.malformed[i]) = 5

\* C18: every row of the table load_csv_robust returns has as many cells as
\* the header; an accepted row one cell short ends with one empty cell added,
\* an accepted row one cell long has lost its last cell, and the other cells
\* keep their values and their order.
C18_RowsHaveHeaderWidth ==
    (call.fn = "load_csv_robust" /\ call.ret.ok) =>
        LET lines == ReadLines(call.arg.text)
            h == Len(call.ret.columns)
            data == [i \in 1..Len(lines) - 1 |-> ParseLine(lines[i + 1])]
            accepted == SelectSeq(data, LAMBDA row :
                            AcceptRow(row, call.ret.columns, call.arg.required))
        IN /\ Len(call.ret.rows) = Len(accepted)
           /\ \A i \in 1..Len(call.ret.rows) :
                 /\ Len(call.ret.rows[i]) = h
                 /\ \A c \in 1..h :
                       call.ret.rows[i][c] = IF c <= Len(accepted[i])
                                             THEN accepted[i][c] ELSE <<>>

\* the table holds a row made of a two-cell line and a row made of a
\* four-cell line, under the three-cell header
C18_Witness ==
    /\ call.fn = "load_csv_robust" /\ call.ret.ok
    /\ Len(call.ret.columns) = 3 /\ Len(call.ret.rows) = 2
    /\ LET lines == ReadLines(call.arg.text)
       IN /\ Len(lines) = 3
          /\ {Len(ParseLine(lines[2])), Len(ParseLine(lines[3]))} = {2, 4}

\* C19: whenever load_csv_robust returns a table, the number of lines after
\* the header is the number of rows of the table plus the number of rows
\* counted as malformed, and the rows of the table are in input order.
C19_EveryLineAccounted ==
    (call.fn = "load_csv_robust" /\ call.ret.ok) =>
        LET lines == ReadLines(call.arg.text)
            data == [i \in 1..Len(lines) - 1 |-> ParseLine(lines[i + 1])]
        IN /\ Len(data) = Len(call.ret.rows) + Len(call.ret.malformed)
           /\ \E at \in [1..Len(call.ret.rows) -> 1..Len(data)] :
                 /\ \A i, j \in 1..Len(call.ret.rows) : i < j => at[i] < at[j]
                 /\ \A i \in 1..Len(call.ret.rows) :
                       \A c \in 1..Len(call.ret.columns) :
                          c <= Len(data[at[i]]) => call.ret.rows[i][c] = data[at[i]][c]

\* C20: load_csv_robust takes as header the first line of the document that
\* contains the required columns of the schema, and raises the no-header
\* error only when no line contains them.
C20_HeaderIsFirstMatchingLine ==
    (call.fn = "load_csv_robust" /\ call.ret.error # "IndexError") =>
        LET lines == ReadLines(call.arg.text)
            matching == {i \in 1..Len(lines) :
                           \A j \in 1..Len(call.arg.required) :
                              Contains(ParseLine(lines[i]), <<call.arg.required[j]>>)}
        IN /\ call.ret.error = "Could not find header row with required columns"
                 => matching = {}
           /\ call.ret.ok
                 => \E i \in matching : /\ call.ret.columns = ParseLine(lines[i])
                                         /\ \A k \in matching : i <= k

\* C21: when the configured section_header does not occur in the text,
\* extract_section_table_from_pdf_with_config fails with the section-not-found
\* error if error_on_section_not_found is true, and returns a table without
\* raising if it is false.
C21_MissingSectionFollowsConfig ==
    (/\ call.fn = "extract_section_table_from_pdf_with_config"
     /\ \A i \in 1..Len(call.arg.text) :
           call.arg.text[i] # <<call.arg.config.section_header>>)
        => IF call.arg.config.error_on_section_not_found
           THEN ~call.ret.ok /\ call.ret.error = "Required section not found in PDF"
           ELSE call.ret.ok


\* C24: when the vendor configuration supplies a row_pattern, a body line is
\* turned into a row by that pattern and not by the built-in regex: the line
\* "100.00  5.00  95.00  01/15/2024  R1" under the pattern with a four-digit
\* year gives the row whose Date is 01/15/2024 and whose Ref is R1.
C24_ConfiguredPatternParsesRows ==
    (/\ call.fn = "extract_section_table_from_pdf_with_config"
     /\ call.arg.config.row_pattern = "full date rows"
     /\ call.ret.ok
     /\ \A i \in 1..Len(call.arg.text) : call.arg.text[i] # <<"TOTAL">>)
        => \A i \in 1..Len(call.arg.text) :
              call.arg.text[i] = <<"100.00", "5.00", "95.00", "01/15/2024", "R1">>
                 => \E r \in 1..Len(call.ret.rows) :
                       call.ret.rows[r] = <<"100.00", "5.00", "95.00", "01/15/2024", "R1">>

\* C25: _find_column_line returns the first line on which at least
\* max(len(expected_columns) - 1, 1) expected columns match a token, a match
\* being equality of the normalized names or similarity at cutoff 0.7, and
\* None (0) when there is no such line.
C25_HeaderCountsFuzzyMatches ==
    call.fn = "_find_column_line"
        => LET expected == call.arg.config.expected_columns
               need == IF Len(expected) - 1 > 1 THEN Len(expected) - 1 ELSE 1
               accepted == {i \in 1..Len(call.arg.text) :
                   Cardinality({k \in 1..Len(expected) :
                       CloseMatch(NormalizeColname(expected[k]),
                                  [j \in 1..Len(call.arg.text[i]) |->
                                      NormalizeColname(call.arg.text[i][j])])}) >= need}
           IN IF accepted = {} THEN call.ret = 0
              ELSE call.ret \in accepted /\ \A j \in accepted : call.ret <= j


\* C30: a schema whose date mapping declares one of the format names the
\* validator translates (MM/DD/YYYY, DD/MM/YYYY, YYYY-MM-DD, MM-DD-YYYY) gets
\* no "Invalid date format" error, so that with otherwise valid content and
\* a new source_id the create operation stores it and answers 200.
C30_TranslatedFormatsAccepted ==
    [][\A schema \in RouteSchemas : \A outcome \in WriteOutcomes :
          (/\ CreateSourceMapping(schema, outcome)
           /\ schema.date_format \in {"MM/DD/YYYY", "DD/MM/YYYY", "YYYY-MM-DD", "MM-DD-YYYY"}
           /\ schema.example_data # <<>>
           /\ StructureErrors(schema) = <<>>
           /\ SampleErrors(schema, schema.example_data) = <<>>
           /\ Lower(schema.source_id) \notin DOMAIN mappings)
              => (resp' = 200 /\ FormatErrors(schema) = <<>>)]_vars


\* C22: in _validate_against_sample_data, for each tested required field the
\* success_rate is the number of sample rows converted successfully over the
\* number of sample rows, successes plus failures is the number of sample
\* rows, and the field gets the low-success-rate warning exactly when the
\* rate is strictly below 0.8 (7 of 10: warning; 8 of 10: none).
C22_SuccessRateAndWarning ==
    call.fn = "_validate_against_sample_data"
        => LET rows == call.arg.sample_data
               source == [date |-> "Date", description |-> "Description",
                          amount |-> "Amount"]
           IN \A f \in DOMAIN call.ret.column_tests :
                 LET t == call.ret.column_tests[f]
                     good == Cardinality({i \in 1..Len(rows) :
                                 ConvertsOk(f, rows[i][source[f]],
                                            call.arg.schema.date_format)})
                 IN /\ t.conversion_success = good
                    /\ t.conversion_success + t.conversion_failures = Len(rows)
                    /\ t.success_rate = <<good, Len(rows)>>
                    /\ (f \in call.ret.warnings) <=> (good * 10 < Len(rows) * 8)
                    /\ (good = 7 /\ Len(rows) = 10) => f \in call.ret.warnings
                    /\ (good = 8 /\ Len(rows) = 10) => f \notin call.ret.warnings

\* a sample of 10 rows of which 7 dates and 8 amounts convert: the date is
\* warned about and the amount is not
C22_Witness ==
    /\ call.fn = "_validate_against_sample_data"
    /\ Len(call.arg.sample_data) = 10
    /\ DOMAIN call.ret.column_tests = {"date", "description", "amount"}
    /\ call.ret.column_tests["date"].success_rate = <<7, 10>>
    /\ call.ret.column_tests["amount"].success_rate = <<8, 10>>
    /\ call.ret.warnings = {"date"}


\* C23: validating a CSV of five rows that lacks the Amount column, for a
\* source whose schema requires Amount, gives valid = false, can_proceed =
\* false and exactly one error, "Missing required column: Amount".
C23_MissingAmountReportedOnce ==
    (/\ res.have /\ res.by = "validate_csv_file"
     /\ doc.exists /\ kind = "csv"
     /\ Lower(src) \in {"chase", "bankofamerica"}
     /\ LET df == PdReadCsv(doc.text)
        IN /\ df.ok /\ Len(df.rows) = 5
           /\ MissingColumns(df, IF Lower(src) = "chase" THEN ChaseRequiredColumns
                                 ELSE BoaRequiredColumns) = <<"Amount">>)
        => /\ ~res.r.valid
           /\ ~res.r.can_proceed
           /\ res.r.errors = << <<"Missing required column: ", "Amount">> >>


\* C26: _fix_embedded_linefeeds returns its input unchanged when every line
\* of the input has an even number of double quotes, whether or not the
\* input ends with a newline, and applying it to its own result changes
\* nothing.
C26_WellFormedTextUnchanged ==
    (/\ call.fn = "_fix_embedded_linefeeds"
     /\ \A i \in 1..Len(SplitLines(call.arg)) :
           Len(SelectSeq(SplitLines(call.arg)[i], LAMBDA a : a = "\"")) % 2 = 0)
        => /\ call.ret = call.arg
           /\ FixEmbeddedLinefeeds(call.ret) = call.ret


\* C27: after apply-fix has reported success for every fixable issue of a
\* document, the next validation of the document reports no issue of one
\* of those types as fixable.
C27_FixedIssueNotReportedAgain ==
    (/\ pc = "idle" /\ reply = "Automatic fixes applied successfully"
     /\ applied = Cardinality({i \in 1..Len(res.r.issues_detected) :
                                  res.r.issues_detected[i].fixable}))
        => \A again \in FixableIssues(ValidateCsvFile(doc, kind, bak, SourceEnum(src)).r) :
              \A fixed \in FixableIssues(res.r) : again.type # fixed.type


\* C29: within one result of validate_csv_file no two issues of the same
\* type differ in fixable.
C29_OneClassificationPerType ==
    (res.have /\ res.by = "validate_csv_file")
        => \A i, j \in 1..Len(res.r.issues_detected) :
              res.r.issues_detected[i].type = res.r.issues_detected[j].type
                 => res.r.issues_detected[i].fixable = res.r.issues_detected[j].fixable


\* C28: when a fixer returns success = false (no fix available, the file
\* could not be read, or a failure while the cleaned rows are written) the
\* document still exists at its path with the content it had before the
\* call; before the call of a fixer in its write step the content was that
\* of the document, or of the backup the document was renamed to.
C28_FailedFixLeavesDocument ==
    [][((FixSkip /\ doc.exists)
           \/ \E failure \in {"open_failed", "write_failed"} : FixWriteFails(failure))
          => /\ doc'.exists
             /\ doc'.text = IF pc = "fix_write" /\ ~doc.exists THEN bak.text
                            ELSE doc.text]_vars

=============================================================================
